---- MODULE Spec2Model ----
(***************************************************************************)
(* A model of the astacus coordinator engine.                              *)
(*                                                                         *)
(* Part 1: the cluster client (astacus/coordinator/cluster.py):            *)
(*   Cluster.request_from_nodes, the lock / relock / unlock calls built on *)
(*   it and their aggregation into a LockResult, two lockers competing for *)
(*   the same nodes, and the poller Cluster.wait_successful_results.       *)
(*                                                                         *)
(* Each part has its own specification (SpecLock, SpecRequest, SpecMutex,  *)
(* SpecWait); the variables of the other parts stay as Init leaves them.   *)
(* Where a definition is preceded by a faulty variant of itself, the       *)
(* variant shows what a property is sensitive to: the property fails when  *)
(* the variant takes the definition's place.                               *)
(***************************************************************************)
EXTENDS Integers, Sequences, FiniteSets, TLC

\* ------------------------------------------------------------------------
\* Bounds of the model
\* ------------------------------------------------------------------------
\* largest number of nodes configured on a Cluster
MaxNodes == 3
\* number of calls made on one Cluster object in a behaviour
MaxCalls == 2
\* largest number of nodes two concurrent lockers compete for
MaxMutexNodes == 2
\* largest number of start results given to wait_successful_results
MaxSlots == 2
\* largest poll_config.maximum_failures
MaxFailures == 2
\* largest poll_config.duration, in units of poll_config.delay_start
MaxDuration == 2
\* largest number of iterations the backoff iterator yields in one wait: a
\* sleep lasts one unit at least, so that the duration allows no more
MaxPasses == MaxDuration + 1
\* largest poll_config.delay_max, in units of poll_config.delay_start
MaxDelay == 2
\* GET /list requests handled side by side
MaxRequests == 3
\* largest c.config.list_ttl
MaxTtl == 2
\* how far time.monotonic() is followed
MaxClock == 2
\* backups that appear in the storage while the requests are handled
MaxBackups == 1
\* nodes whose snapshots are distributed
MaxDistNodes == 2
\* distinct hexdigests in the snapshots
MaxDigests == 2
\* largest size of a file
MaxSize == 2
\* longest list of hashes in a snapshot
MaxHashes == 2
\* calls of build_node_index_datas on the same arguments
MaxBuilds == 2
\* coordinator nodes, and snapshots in a backup, of a restore by AZ
MaxPlaceNodes == 4
\* coordinator nodes, and snapshots in a backup, of a partial restore
MaxPartialNodes == 2
\* entries of partial_restore_nodes
MaxPartial == 2
\* the values a step result may take
MaxResults == 2
\* the step classes used as keys in direct calls of a StepsContext
MaxStepClasses == 2
\* the direct calls made on a StepsContext
MaxContextCalls == 4
\* StepsContext.attempt goes up to this
MaxAttempts == 2
\* the manifests stored in the object storage
MaxManifests == 2
\* the requests a node agent handles
MaxAgentRequests == 4
\* coordinator nodes, and snapshots in a backup, of a RestoreStep
MaxRestoreNodes == 3

\* ------------------------------------------------------------------------
\* Values
\* ------------------------------------------------------------------------
Lockers == {"L1", "L2"}

\* astacus.common.magic.LockCall as used by cluster.py
LockCall == {"lock", "relock", "unlock"}

\* the kinds of call the model makes on the Cluster; "request" is a direct
\* call of request_from_nodes by a step
CallKinds == LockCall \cup {"request"}

\* class LockResult(Enum)
LockResult == {"ok", "failure", "exception"}

\* HTTP bodies a node may answer with
BodyLockedTrue == "{\"locked\": true}"
BodyLockedFalse == "{\"locked\": false}"
BodyLockedOne == "{\"locked\": 1}"
BodyNull == "null"
BodyNotJson == "<html>Bad Gateway</html>"

Bodies == {BodyLockedTrue, BodyLockedFalse, BodyLockedOne, BodyNull, BodyNotJson}

\* One slot of the sequence request_from_nodes returns (type Result, or None):
\*   kind "exc"     the request coroutine raised; gather stored the exception
\*   kind "none"    the request returned None (no response)
\*   kind "resp"    an httpx.Response with a status code and a body
\*   kind "pending" the request has not completed yet (not a returned value)
Pending == [kind |-> "pending", status |-> 0, body |-> ""]
ExcResult == [kind |-> "exc", status |-> 0, body |-> ""]
NoneResult == [kind |-> "none", status |-> 0, body |-> ""]
Response(status, body) == [kind |-> "resp", status |-> status, body |-> body]

\* what a node can answer to a lock, relock or unlock request
LockOutcomes ==
    {ExcResult, NoneResult, Response(500, BodyLockedTrue)}
        \cup {Response(200, b) : b \in Bodies \ {BodyNull}}

\* what a node can answer to a request a step sends
RequestOutcomes ==
    {ExcResult, NoneResult, Response(200, BodyLockedTrue), Response(500, BodyNull)}

\* httpx.Response.is_error: a 4xx or 5xx status code
is_error(result) == result.status >= 400

\* A decoded JSON value: None, or a dict given as its set of (key, value) items
PyNone == [isNone |-> TRUE, items |-> {}]
PyDict(items) == [isNone |-> FALSE, items |-> items]

\* result.json(), with json.JSONDecodeError caught and replaced by None
\* (cluster.py lines 115-118)
json_decode(body) ==
    CASE body = BodyLockedTrue -> PyDict({<<"locked", "true">>})
      [] body = BodyLockedFalse -> PyDict({<<"locked", "false">>})
      [] body = BodyLockedOne -> PyDict({<<"locked", "1">>})
      [] body = BodyNull -> PyNone
      [] OTHER -> PyNone

\* Python's == on the decoded values: bool is a subclass of int, so the JSON
\* number 1 compares equal to True and 0 to False
PyScalar(v) == CASE v = "1" -> "true" [] v = "0" -> "false" [] OTHER -> v
PyItems(d) == {<<it[1], PyScalar(it[2])>> : it \in d.items}
PyEq(a, b) == a.isNone = b.isNone /\ PyItems(a) = PyItems(b)

\* cluster.py lines 96-101
expected_result(kind) ==
    IF kind \in {"lock", "relock"}
    THEN PyDict({<<"locked", "true">>})
    ELSE PyDict({<<"locked", "false">>})

\* ------------------------------------------------------------------------
\* State of the cluster client
\* ------------------------------------------------------------------------
VARIABLES
    nodes,          \* Cluster.nodes: the configured nodes, in order
    subresult_url,  \* Cluster.subresult_url (may be None)
    stats,          \* Cluster.stats (may be None) with its counters
    pc,             \* "idle", "gather" (awaiting asyncio.gather), "done", "raised"
    call,           \* the call in progress: kind, locker, target nodes
    req,            \* the caller's ipc.NodeRequest object (may be None)
    data,           \* kw["data"]: the request body sent to the nodes
    results,        \* one slot per target node, filled as its request completes
    sent,           \* per node: requests issued to it by the current call
    answered,       \* per node: what its request produced in the current call
    returned,       \* the sequence request_from_nodes returned
    rv,             \* the LockResult a lock call returned
    stats0,         \* the counters as they were when the current call started
    ncalls          \* calls made so far

clusterVars ==
    <<nodes, subresult_url, stats, pc, call, req, data, results, sent,
      answered, returned, rv, stats0, ncalls>>

\* Two lockers locking the same nodes, each through its own request_lock
VARIABLES
    locked_by,      \* per node: the locker the node's lock is granted to
    lpc,            \* per locker: "idle", "gather", "done"
    lresults,       \* per locker: the result slots of its request_lock
    lrv,            \* per locker: the LockResult its request_lock returned
    lost            \* per locker: a lock a node granted to it has expired

mutexVars == <<locked_by, lpc, lresults, lrv, lost>>

\* Cluster.wait_successful_results
VARIABLES
    maximum_failures,   \* poll_config.maximum_failures
    poll_config,        \* poll_config: delay_start, delay_multiplier,
                        \* delay_max, duration
    elapsed,            \* time since the backoff iterator started
    next_delay,         \* the delay before the next iteration
    sleeps,             \* sleeps of the backoff iterator so far
    ok_polls,           \* polls that gave a result so far
    always_running,     \* per slot: every poll of the slot so far gave a
                        \* result that is not final
    progress_handler,   \* Cluster.progress_handler is set
    start_results,      \* argument: the start results, in order
    required_successes, \* argument (may be None)
    wpc,                \* "idle", "backoff", "poll", "returned", "error"
    werror,             \* the message of the WaitResultError raised
    urls,               \* the status urls of the slots
    wresults,           \* results: per slot the stored result (may be None)
    failures,           \* failures: per slot the failure counter
    wi,                 \* the slot whose poll is in flight
    passes,             \* iterations of the backoff loop started
    handler_calls,      \* calls of the progress handler
    handler_arg,        \* the progresses merged for its last call
    polled,             \* a status url has been requested
    nil_run,            \* per slot: polls without response since the last
                        \* successful poll of the slot
    last_poll,          \* per slot: the last successful poll
    failed_seen         \* a poll returned progress.finished_failed

waitVars ==
    <<maximum_failures, progress_handler, start_results, required_successes,
      wpc, werror, urls, wresults, failures, wi, passes, handler_calls,
      handler_arg, polled, nil_run, last_poll, failed_seen, poll_config,
      elapsed, next_delay, sleeps, ok_polls, always_running>>

\* ---- the listing cache of the coordinator (api.py, GET /list)
VARIABLES
    list_ttl,               \* c.config.list_ttl
    sync_lock,              \* c.sync_lock: the request holding it, or 0
    cached_list_response,   \* c.state.cached_list_response
    cached_list_running,    \* c.state.cached_list_running
    monotonic,              \* time.monotonic()
    storage,                \* the backups in the object storage
    lpc_list,               \* per request: where its handler is
    list_req,               \* per request: its ListRequest
    list_response,          \* per request: the local list_response
    http_response,          \* per request: what the client receives
    seen_cache,             \* per request: the cache entry it read (line 83)
    seen_running,           \* per request: the flag when it held the mutex
    list_calls,             \* calls of list_backups so far
    list_raised             \* calls of list_backups that raised so far

listVars ==
    <<list_ttl, sync_lock, cached_list_response, cached_list_running,
      monotonic, storage, lpc_list, list_req, list_response, http_response,
      seen_cache, seen_running, list_calls, list_raised>>

\* ---- the distribution of the uploads (plugins/base.py)
VARIABLES
    hexdigests,             \* the hexdigests already in the object storage
    snapshots,              \* one SnapshotResult per node
    node_indices,           \* the node index of each snapshot
    dpc,                    \* where build_node_index_datas is
    todo,                   \* the items of the reverse map not yet handled
    node_index_datas,       \* one NodeIndexData per node
    build_results,          \* what each call so far has returned
    given,                  \* the arguments as they were at the first call
    uploaded                \* the plans that have been uploaded so far

distVars ==
    <<hexdigests, snapshots, node_indices, dpc, todo, node_index_datas,
      build_results, given, uploaded>>

\* ---- the placement of a restore (plugins/base.py)
VARIABLES
    restore_nodes,          \* nodes: the CoordinatorNodes (az, url)
    snapshot_results,       \* the SnapshotResults of the backup (az, hostname)
    partial_given,          \* partial_restore_nodes: "none", "empty", "list"
    req_nodes,              \* the entries of partial_restore_nodes read so far
    gpc,                    \* where get_node_to_backup_index is
    node_to_backup_index,   \* the list that is being filled
    az_pairs,               \* zip(azs_in_backup.most_common(), ...)
    pair_i,                 \* the pairs handled so far
    raised                  \* the exception that left the function

placeVars ==
    <<restore_nodes, snapshot_results, partial_given, req_nodes, gpc,
      node_to_backup_index, az_pairs, pair_i, raised>>

\* ---- the steps of an operation (plugins/base.py, plugins/clickhouse)
VARIABLES
    step_results,           \* StepsContext.step_results
    ctx_history,            \* the set_result and get_result calls made on it
    plugin_op,              \* the operation asked of the plugin
    partial_req,            \* req.partial_restore_nodes: "none", "empty", "list"
    steps,                  \* the list the plugin returned
    step_i,                 \* the step the runner is at
    ppc,                    \* where the runner is
    attempt,                \* StepsContext.attempt
    step_log,               \* what the steps did, in order
    pipeline_raised         \* the exception that ended the operation

ctxVars ==
    <<step_results, ctx_history, plugin_op, partial_req, steps, step_i, ppc,
      attempt, step_log, pipeline_raised>>

\* ---- the names of the backups (plugins/base.py)
VARIABLES
    attempt_starts,         \* attempt_start of the contexts that stored a manifest
    uploaded_names,         \* the name each of them stored its manifest under
    json_storage,           \* the names json_storage.list_jsons() gives
    requested_name,         \* BackupNameStep.requested_name
    bpc,                    \* where BackupNameStep.run_step is
    name_result             \* what it returned, or the exception it raised

nameVars ==
    <<attempt_starts, uploaded_names, json_storage, requested_name, bpc,
      name_result>>

\* ---- a node agent (node/api.py, as used by tests/unit/node)
VARIABLES
    agent_locker,           \* the locker the node is locked by, or NoLocker
    cassandra_configured,   \* node_config.cassandra is set
    agent_log               \* the requests the node handled, with its answers

agentVars == <<agent_locker, cassandra_configured, agent_log>>

\* ---- RestoreStep (plugins/base.py)
VARIABLES
    rspc,                   \* where RestoreStep.run_step is
    restore_i,              \* the nodes its loop has handled
    node_requests,          \* the requests it sent, with their results
    restore_start_results,  \* start_results
    waited                  \* the list given to wait_successful_results

restoreVars ==
    <<rspc, restore_i, node_requests, restore_start_results, waited>>

pluginVars == <<ctxVars, nameVars, agentVars, restoreVars>>

coreVars ==
    <<clusterVars, mutexVars, waitVars, listVars, distVars, placeVars>>

notCtxVars == <<coreVars, nameVars, agentVars, restoreVars>>
notNameVars == <<coreVars, ctxVars, agentVars, restoreVars>>
notAgentVars == <<coreVars, ctxVars, nameVars, restoreVars>>
notRestoreVars == <<coreVars, ctxVars, nameVars, agentVars>>


notClusterVars == <<mutexVars, waitVars, listVars, distVars, placeVars,
    pluginVars>>
notMutexVars == <<clusterVars, waitVars, listVars, distVars, placeVars,
    pluginVars>>
notWaitVars == <<clusterVars, mutexVars, listVars, distVars, placeVars,
    pluginVars>>
notListVars == <<clusterVars, mutexVars, waitVars, distVars, placeVars,
    pluginVars>>
notDistVars == <<clusterVars, mutexVars, waitVars, listVars, placeVars,
    pluginVars>>
notPlaceVars == <<clusterVars, mutexVars, waitVars, listVars, distVars,
    pluginVars>>

NodeIds == 1..MaxNodes

\* ipc.NodeRequest as far as cluster.py touches it: its result_url field
NoReq == [isNone |-> TRUE, result_url |-> ""]
NodeRequest(url) == [isNone |-> FALSE, result_url |-> url]
NoUrl == [isNone |-> TRUE, url |-> ""]
Url(u) == [isNone |-> FALSE, url |-> u]
NoData == [isNone |-> TRUE, result_url |-> ""]

\* req.json(): the serialised request carries the result_url field
req_json(r) == [isNone |-> FALSE, result_url |-> r.result_url]

StatTags == LockCall \X Lockers
NoCounters == [t \in StatTags |-> 0]
NoNodes == [isNone |-> TRUE, list |-> <<>>]
SomeNodes(list) == [isNone |-> FALSE, list |-> list]

\* the call in progress and its arguments as the caller passed them
NoCall ==
    [kind |-> "none", locker |-> "", targets |-> <<>>, nodesArg |-> NoNodes,
     reqArg |-> NoReq]

\* StatsClient.increase("astacus_lock_call_failure", tags={call, locker})
stats_increase(counters, kind, locker) ==
    [counters EXCEPT ![<<kind, locker>>] = @ + 1]

\* Cluster.__init__
InitCluster ==
    /\ \E n \in 0..MaxNodes : nodes = [i \in 1..n |-> i]
    /\ subresult_url \in {NoUrl, Url("http://coordinator/sub-result")}
    /\ \E on \in BOOLEAN : stats = [isNone |-> ~on, counters |-> NoCounters]
    /\ pc = "idle"
    /\ call = NoCall
    /\ req = NoReq
    /\ data = NoData
    /\ results = <<>>
    /\ sent = [n \in NodeIds |-> 0]
    /\ answered = [n \in NodeIds |-> Pending]
    /\ returned = <<>>
    /\ rv = "none"
    /\ stats0 = NoCounters
    /\ ncalls = 0

\* the results a node may produce for a call of the given kind
Outcomes(kind) == IF kind \in LockCall THEN LockOutcomes ELSE RequestOutcomes

\* request_from_nodes line 80: gather(..., return_exceptions=True)
return_exceptions == TRUE

\* asyncio.gather completes when every awaitable has completed
\* (faulty variant: when the first one has)
GatherDoneAny(rs) == \E i \in 1..Len(rs) : rs[i].kind # "pending"
GatherDone(rs) == \A i \in 1..Len(rs) : rs[i].kind # "pending"

\* with return_exceptions=False the first exception is raised out of gather
GatherRaises(rs) ==
    ~return_exceptions /\ \E i \in 1..Len(rs) : rs[i].kind = "exc"

\* the target nodes (lines 71-72)
TargetNodes(nodesArg) == IF nodesArg.isNone THEN nodes ELSE nodesArg.list

\* lines 73-76: the request's result_url after the call
\* (faulty variant: overwritten without the two checks)
ResultUrlAlways(r) == [r EXCEPT !.result_url = subresult_url.url]
ResultUrl(r) ==
    IF ~r.isNone /\ ~subresult_url.isNone
    THEN [r EXCEPT !.result_url = subresult_url.url]
    ELSE r

\* Cluster.request_from_nodes up to its await (lines 71-80): the requests
\* of all target nodes are created and handed to gather
RequestFromNodes(kind, locker, r, nodesArg) ==
    /\ pc \in {"idle", "done", "raised"}
    /\ ncalls < MaxCalls
    /\ LET targets == TargetNodes(nodesArg)
           r2 == ResultUrl(r)
       IN /\ call' = [kind |-> kind, locker |-> locker, targets |-> targets,
                       nodesArg |-> nodesArg, reqArg |-> r]
          /\ req' = r2
          /\ data' = IF r.isNone THEN NoData ELSE req_json(r2)
          /\ results' = [i \in 1..Len(targets) |-> Pending]
          /\ sent' = [n \in NodeIds |->
                        Cardinality({i \in 1..Len(targets) : targets[i] = n})]
    /\ answered' = [n \in NodeIds |-> Pending]
    /\ returned' = <<>>
    /\ rv' = "none"
    /\ stats0' = stats.counters
    /\ ncalls' = ncalls + 1
    /\ pc' = "gather"
    /\ UNCHANGED <<nodes, subresult_url, stats>>
    /\ UNCHANGED notClusterVars

\* one of the gathered requests completes: utils.httpx_request returns a
\* response, returns None, or raises
NodeRequestDone ==
    /\ pc = "gather"
    /\ \E i \in 1..Len(results) :
        /\ results[i].kind = "pending"
        /\ \E o \in Outcomes(call.kind) :
            /\ results' = [results EXCEPT ![i] = o]
            /\ answered' = [answered EXCEPT ![call.targets[i]] = o]
    /\ UNCHANGED <<nodes, subresult_url, stats, pc, call, req, data, sent,
                   returned, rv, stats0, ncalls>>
    /\ UNCHANGED notClusterVars

\* a step calls request_from_nodes(url, caller=..., req=..., nodes=...)
request_from_nodes ==
    \E r \in {NoReq, NodeRequest(""), NodeRequest("http://stale")} :
    \E nodesArg \in {NoNodes} \cup {SomeNodes(<<n>>) : n \in 1..Len(nodes)}
                     \cup {SomeNodes(<<n, m>>) : n, m \in 1..Len(nodes)} :
        /\ (nodesArg.isNone \/ Cardinality({nodesArg.list[i] : i \in 1..Len(nodesArg.list)})
                                  = Len(nodesArg.list))
        /\ RequestFromNodes("request", "", r, nodesArg)

\* request_from_nodes lines 80-82: gather is done, the results are returned
RequestReturn ==
    /\ pc = "gather"
    /\ call.kind = "request"
    /\ GatherRaises(results) \/ GatherDone(results)
    /\ pc' = IF GatherRaises(results) THEN "raised" ELSE "done"
    /\ returned' = IF GatherRaises(results) THEN <<>> ELSE results
    /\ UNCHANGED <<nodes, subresult_url, stats, call, req, data, results,
                   sent, answered, rv, stats0, ncalls>>
    /\ UNCHANGED notClusterVars

\* ------------------------------------------------------------------------
\* The cluster lock protocol: lock, relock, unlock
\* ------------------------------------------------------------------------

\* one iteration of the loop of _request_lock_call_from_nodes (lines 103-121)
\* (faulty variants: an exception overrides an earlier failure; a node that
\* gave no response is skipped; the status code is not looked at)
lock_call_step_exception_wins(kind, result, r) ==
    IF result.kind \in {"none", "exc"}
    THEN "exception"
    ELSE IF is_error(result)
    THEN "failure"
    ELSE IF ~PyEq(json_decode(result.body), expected_result(kind))
    THEN "failure"
    ELSE r
lock_call_step_ignores_exception(kind, result, r) ==
    IF result.kind \in {"none", "exc"}
    THEN r
    ELSE IF is_error(result)
    THEN "failure"
    ELSE IF ~PyEq(json_decode(result.body), expected_result(kind))
    THEN "failure"
    ELSE r
lock_call_step_ignores_status(kind, result, r) ==
    IF result.kind \in {"none", "exc"}
    THEN IF r # "failure" THEN "exception" ELSE r
    ELSE IF ~PyEq(json_decode(result.body), expected_result(kind))
    THEN "failure"
    ELSE r
lock_call_step(kind, result, r) ==
    IF result.kind \in {"none", "exc"}
    THEN IF r # "failure" THEN "exception" ELSE r
    ELSE IF is_error(result)
    THEN "failure"
    ELSE IF ~PyEq(json_decode(result.body), expected_result(kind))
    THEN "failure"
    ELSE r

\* the loop over zip(nodes, results), from slot i on, rv being r so far
RECURSIVE lock_call_loop(_, _, _, _)
lock_call_loop(kind, rs, i, r) ==
    IF i > Len(rs)
    THEN r
    ELSE lock_call_loop(kind, rs, i + 1, lock_call_step(kind, rs[i], r))

\* lines 122-126: the failure counter
\* (faulty variant: counted once per failed node)
lock_call_stats_per_node(r, rs, kind, locker) ==
    IF ~stats.isNone
    THEN [stats EXCEPT !.counters =
            [t \in StatTags |->
                IF t = <<kind, locker>>
                THEN @[t] + Cardinality({i \in 1..Len(rs) :
                                          lock_call_step(kind, rs[i], "ok") = "failure"})
                ELSE @[t]]]
    ELSE stats
lock_call_stats(r, rs, kind, locker) ==
    IF r = "failure" /\ ~stats.isNone
    THEN [stats EXCEPT !.counters = stats_increase(@, kind, locker)]
    ELSE stats

\* Cluster.request_lock (line 53)
request_lock ==
    \E locker \in Lockers :
        RequestFromNodes("lock", locker, NoReq, SomeNodes(nodes))

\* Cluster.request_unlock (line 56)
request_unlock ==
    \E locker \in Lockers :
        RequestFromNodes("unlock", locker, NoReq, SomeNodes(nodes))

\* Cluster.request_relock (lines 59-60)
request_relock ==
    \E locker \in Lockers :
    \E n \in 1..Len(nodes) :
        RequestFromNodes("relock", locker, NoReq, SomeNodes(<<nodes[n]>>))

\* _request_lock_call_from_nodes from the return of request_from_nodes to
\* its own return (lines 95-127)
LockCallReturn ==
    /\ pc = "gather"
    /\ call.kind \in LockCall
    /\ GatherDone(results)
    /\ LET r == lock_call_loop(call.kind, results, 1, "ok")
       IN /\ rv' = r
          /\ stats' = lock_call_stats(r, results, call.kind, call.locker)
    /\ returned' = results
    /\ pc' = "done"
    /\ UNCHANGED <<nodes, subresult_url, call, req, data, results, sent,
                   answered, stats0, ncalls>>
    /\ UNCHANGED notClusterVars

\* ------------------------------------------------------------------------
\* Two concurrent request_lock calls against the same nodes
\* ------------------------------------------------------------------------
NoLocker == "unlocked"

\* the nodes both lockers address (the Cluster.nodes of both)
InitMutex ==
    /\ locked_by = [n \in NodeIds |-> NoLocker]
    /\ lpc = [l \in Lockers |-> "idle"]
    /\ lresults = [l \in Lockers |-> <<>>]
    /\ lrv = [l \in Lockers |-> "none"]
    /\ lost = [l \in Lockers |-> FALSE]

\* POST /node/lock on a node: the lock is granted when the node is not
\* locked, and refused (a 409, or locked: false) when it is
node_grants(n, locker) == locked_by[n] = NoLocker

node_lock_responses(n, locker) ==
    IF node_grants(n, locker)
    THEN {Response(200, BodyLockedTrue)}
    ELSE {Response(409, BodyNotJson), Response(200, BodyLockedFalse)}

\* request_lock of one locker up to the await of gather
LockerRequestLock(locker) ==
    /\ lpc[locker] = "idle"
    /\ lpc' = [lpc EXCEPT ![locker] = "gather"]
    /\ lresults' = [lresults EXCEPT ![locker] = [i \in 1..Len(nodes) |-> Pending]]
    /\ UNCHANGED <<locked_by, lrv, lost>>
    /\ UNCHANGED notMutexVars

\* the node handles the lock request of a locker; the response reaches the
\* coordinator, or is lost on the way back (no response, or an exception)
NodeHandlesLock(locker) ==
    /\ lpc[locker] = "gather"
    /\ \E i \in 1..Len(nodes) :
        /\ lresults[locker][i].kind = "pending"
        /\ locked_by' = IF node_grants(nodes[i], locker)
                        THEN [locked_by EXCEPT ![nodes[i]] = locker]
                        ELSE locked_by
        /\ \E o \in node_lock_responses(nodes[i], locker) \cup {ExcResult, NoneResult} :
            lresults' = [lresults EXCEPT ![locker][i] = o]
    /\ UNCHANGED <<lpc, lrv, lost>>
    /\ UNCHANGED notMutexVars

\* the request never reaches the node
LockRequestFails(locker) ==
    /\ lpc[locker] = "gather"
    /\ \E i \in 1..Len(nodes) :
        /\ lresults[locker][i].kind = "pending"
        /\ \E o \in {ExcResult, NoneResult} :
            lresults' = [lresults EXCEPT ![locker][i] = o]
    /\ UNCHANGED <<locked_by, lpc, lrv, lost>>
    /\ UNCHANGED notMutexVars

\* request_lock of one locker returns the aggregate of its results
LockerReturn(locker) ==
    /\ lpc[locker] = "gather"
    /\ GatherDone(lresults[locker])
    /\ lrv' = [lrv EXCEPT ![locker] = lock_call_loop("lock", lresults[locker], 1, "ok")]
    /\ lpc' = [lpc EXCEPT ![locker] = "done"]
    /\ UNCHANGED <<locked_by, lresults, lost>>
    /\ UNCHANGED notMutexVars

\* the ttl of a node's lock runs out: the node is unlocked again
NodeLockExpires ==
    /\ \E n \in 1..Len(nodes) :
        /\ locked_by[nodes[n]] # NoLocker
        /\ lost' = [lost EXCEPT ![locked_by[nodes[n]]] = TRUE]
        /\ locked_by' = [locked_by EXCEPT ![nodes[n]] = NoLocker]
    /\ UNCHANGED <<lpc, lresults, lrv>>
    /\ UNCHANGED notMutexVars

\* ------------------------------------------------------------------------
\* The poller: Cluster.wait_successful_results
\* ------------------------------------------------------------------------
StatusUrls == {"http://node-a/status/1", "http://node-b/status/1"}

\* a start result: None, an empty dict, an exception, or a dict that parses
\* as op.Op.StartResult and carries a status_url
StartNone == [kind |-> "none", status_url |-> ""]
StartEmpty == [kind |-> "empty", status_url |-> ""]
StartExc == [kind |-> "exc", status_url |-> ""]
StartResult(url) == [kind |-> "started", status_url |-> url]

StartResults ==
    {StartNone, StartEmpty, StartExc} \cup {StartResult(u) : u \in StatusUrls}

\* required_successes: None or a count
NoCount == [isNone |-> TRUE, n |-> 0]
Count(n) == [isNone |-> FALSE, n |-> n]

\* what a poll of a status url gives: None (no response), or the node's
\* result with the flags final and finished_failed of its progress
NoResult == [isNone |-> TRUE, url |-> "", final |-> FALSE, finished_failed |-> FALSE]
NodeResult(url, final, finished_failed) ==
    [isNone |-> FALSE, url |-> url, final |-> final,
     finished_failed |-> finished_failed]

\* the responses of the node behind a status url; a progress that has
\* finished_failed is final
PollResponses(url) ==
    {NoResult, NodeResult(url, FALSE, FALSE), NodeResult(url, TRUE, FALSE),
     NodeResult(url, TRUE, TRUE)}

WaitErrors ==
    {"incorrect start result", "incorrect number of results",
     "too many failures", "WaitResultError()", "timed out"}

\* PollConfig: the delays and the duration are multiples of delay_start
PollConfigs ==
    [delay_start : {1}, delay_multiplier : {2}, delay_max : 1..MaxDelay,
     duration : 0..MaxDuration]

Min(a, b) == IF a <= b THEN a ELSE b

\* Cluster.__init__ (poll_config, progress_handler), before any wait
InitWait ==
    /\ maximum_failures \in 1..MaxFailures
    /\ poll_config \in PollConfigs
    /\ elapsed = 0
    /\ next_delay = 0
    /\ sleeps = 0
    /\ ok_polls = 0
    /\ always_running = <<>>
    /\ progress_handler \in BOOLEAN
    /\ start_results = <<>>
    /\ required_successes = NoCount
    /\ wpc = "idle"
    /\ werror = ""
    /\ urls = <<>>
    /\ wresults = <<>>
    /\ failures = <<>>
    /\ wi = 0
    /\ passes = 0
    /\ handler_calls = 0
    /\ handler_arg = {}
    /\ polled = FALSE
    /\ nil_run = <<>>
    /\ last_poll = <<>>
    /\ failed_seen = FALSE

\* line 139: not start_result or isinstance(start_result, BaseException)
\* (faulty variant: only None is caught)
incorrect_start_result_only_none(sr) == sr.kind = "none"
incorrect_start_result(sr) == sr.kind \in {"none", "empty", "exc"}

\* line 146
incorrect_count(n, required) == ~required.isNone /\ n # required.n

\* line 163: the slot is skipped in this pass
slot_is_final(result) == ~result.isNone /\ result.final

\* the next slot from slot i on that is polled in this pass (0: none is)
next_slot(rs, i) ==
    IF \E j \in i..Len(rs) : ~slot_is_final(rs[j])
    THEN CHOOSE j \in i..Len(rs) :
            /\ ~slot_is_final(rs[j])
            /\ \A k \in i..(j - 1) : slot_is_final(rs[k])
    ELSE 0

\* line 181: no slot is None or not final
\* (faulty variant: some slot is final)
all_final_some(rs) == \E j \in 1..Len(rs) : slot_is_final(rs[j])
all_final(rs) == \A j \in 1..Len(rs) : slot_is_final(rs[j])

\* lines 169 and 176: the failure counter of slot i
\* (faulty variant: one count for all slots)
failures_after_nil_shared(f, i) == [j \in DOMAIN f |-> f[j] + 1]
failures_after_nil(f, i) == [f EXCEPT ![i] = @ + 1]
failures_after_result(f, i) == [f EXCEPT ![i] = 0]

\* line 179 (faulty variant: the flag is not looked at)
node_failed_not_checked(result) == FALSE
node_failed(result) == result.finished_failed

\* line 178: the progresses handed to Progress.merge, by slot
\* (faulty variant: only the final ones)
merged_progress_final(rs) == {<<j, rs[j]>> : j \in {k \in 1..Len(rs) : slot_is_final(rs[k])}}
merged_progress(rs) == {<<j, rs[j]>> : j \in {k \in 1..Len(rs) : ~rs[k].isNone}}

\* where the loop goes after slot i, the results being rs: to the poll of
\* the next slot of this pass, or at the end of the pass to the return
\* (line 181-182, 187) or to the next iteration of the backoff loop
after_slot(rs, i) ==
    IF next_slot(rs, i + 1) # 0 THEN "poll"
    ELSE IF all_final(rs) THEN "returned"
    ELSE "backoff"

\* lines 155-158: the arguments given to utils.exponential_backoff
\* (faulty variant: the duration is not passed on)
backoff_duration_unset == [isNone |-> TRUE, n |-> 0]
backoff_duration == [isNone |-> FALSE, n |-> poll_config.duration]
backoff_initial == poll_config.delay_start
backoff_multiplier == poll_config.delay_multiplier
backoff_maximum == poll_config.delay_max

\* utils.exponential_backoff: the first iteration is not delayed; the delay
\* before iteration k+1 is initial * multiplier^(k-1), at most maximum
backoff_first_delay == Min(backoff_initial, backoff_maximum)
backoff_delay_after(d) == Min(d * backoff_multiplier, backoff_maximum)

\* utils.exponential_backoff stops when the delay would end after the
\* duration; the first iteration is always made
backoff_stops(iterations, now, d) ==
    /\ iterations > 0
    /\ ~backoff_duration.isNone
    /\ now + d > backoff_duration.n

\* time is not followed beyond the end of the duration
clock_after(now, dt) == Min(now + dt, poll_config.duration + 1)

\* a poll takes no time to speak of, or one unit (at most result_timeout)
PollTimes == {0, 1}

\* wait_successful_results up to its first await (lines 136-154)
wait_successful_results ==
    /\ wpc = "idle"
    /\ \E n \in 0..MaxSlots :
       \E srs \in [1..n -> StartResults] :
       \E required \in {NoCount} \cup {Count(k) : k \in 0..(n + 1)} :
        /\ start_results' = srs
        /\ required_successes' = required
        /\ IF \E i \in 1..n : incorrect_start_result(srs[i])
           THEN /\ wpc' = "error"
                /\ werror' = "incorrect start result"
                /\ UNCHANGED <<urls, wresults, failures, nil_run, last_poll>>
           ELSE IF incorrect_count(n, required)
           THEN /\ wpc' = "error"
                /\ werror' = "incorrect number of results"
                /\ UNCHANGED <<urls, wresults, failures, nil_run, last_poll>>
           ELSE /\ wpc' = "backoff"
                /\ werror' = ""
                /\ urls' = [i \in 1..n |-> srs[i].status_url]
                /\ wresults' = [i \in 1..n |-> NoResult]
                /\ failures' = [i \in 1..n |-> 0]
                /\ nil_run' = [i \in 1..n |-> 0]
                /\ last_poll' = [i \in 1..n |-> NoResult]
        /\ always_running' = [i \in 1..n |-> TRUE]
    /\ next_delay' = backoff_first_delay
    /\ UNCHANGED <<maximum_failures, progress_handler, wi, passes,
                   handler_calls, handler_arg, polled, failed_seen,
                   poll_config, elapsed, sleeps, ok_polls>>
    /\ UNCHANGED notWaitVars

\* utils.exponential_backoff yields: a pass over the slots starts
\* (lines 154-165), up to the poll of its first slot
BackoffYields ==
    /\ wpc = "backoff"
    /\ passes < MaxPasses
    /\ ~backoff_stops(passes, elapsed, next_delay)
    /\ passes' = passes + 1
    /\ IF passes = 0
       THEN UNCHANGED <<elapsed, next_delay, sleeps>>
       ELSE \* the sleep lasts the delay, or less when the sleeper is woken up
            /\ \E dt \in 1..next_delay : elapsed' = clock_after(elapsed, dt)
            /\ next_delay' = backoff_delay_after(next_delay)
            /\ sleeps' = sleeps + 1
    /\ wpc' = after_slot(wresults, 0)
    /\ wi' = next_slot(wresults, 1)
    /\ polled' = (polled \/ next_slot(wresults, 1) # 0)
    /\ UNCHANGED <<maximum_failures, progress_handler, start_results,
                   required_successes, werror, urls, wresults, failures,
                   handler_calls, handler_arg, nil_run, last_poll, failed_seen,
                   poll_config, ok_polls, always_running>>
    /\ UNCHANGED notWaitVars

\* utils.exponential_backoff is exhausted: the duration is used up
\* (lines 183-185)
BackoffExhausted ==
    /\ wpc = "backoff"
    /\ backoff_stops(passes, elapsed, next_delay)
    /\ wpc' = "error"
    /\ werror' = "timed out"
    /\ UNCHANGED <<maximum_failures, progress_handler, start_results,
                   required_successes, urls, wresults, failures, wi, passes,
                   handler_calls, handler_arg, polled, nil_run, last_poll,
                   failed_seen, poll_config, elapsed, next_delay, sleeps,
                   ok_polls, always_running>>
    /\ UNCHANGED notWaitVars

\* the poll of slot wi gave no response (lines 168-172)
PollNoResponse ==
    /\ wpc = "poll"
    /\ LET f == failures_after_nil(failures, wi)
       IN /\ failures' = f
          /\ IF f[wi] >= maximum_failures
             THEN /\ wpc' = "error"
                  /\ werror' = "too many failures"
                  /\ UNCHANGED <<wi, polled>>
             ELSE /\ wpc' = after_slot(wresults, wi)
                  /\ werror' = werror
                  /\ wi' = next_slot(wresults, wi + 1)
                  /\ polled' = polled
    /\ nil_run' = [nil_run EXCEPT ![wi] = @ + 1]
    /\ always_running' = [always_running EXCEPT ![wi] = FALSE]
    /\ \E dt \in PollTimes : elapsed' = clock_after(elapsed, dt)
    /\ UNCHANGED <<maximum_failures, progress_handler, start_results,
                   required_successes, urls, wresults, passes, handler_calls,
                   handler_arg, last_poll, failed_seen, poll_config,
                   next_delay, sleeps, ok_polls>>
    /\ UNCHANGED notWaitVars

\* the poll of slot wi gave a result (lines 173-180)
PollResult ==
    /\ wpc = "poll"
    /\ \E r \in PollResponses(urls[wi]) \ {NoResult} :
        LET rs == [wresults EXCEPT ![wi] = r]
        IN /\ wresults' = rs
           /\ failures' = failures_after_result(failures, wi)
           /\ handler_calls' = IF progress_handler THEN handler_calls + 1
                               ELSE handler_calls
           /\ handler_arg' = IF progress_handler THEN merged_progress(rs)
                             ELSE handler_arg
           /\ IF node_failed(r)
              THEN /\ wpc' = "error"
                   /\ werror' = "WaitResultError()"
                   /\ wi' = wi
              ELSE /\ wpc' = after_slot(rs, wi)
                   /\ werror' = werror
                   /\ wi' = next_slot(rs, wi + 1)
           /\ nil_run' = [nil_run EXCEPT ![wi] = 0]
           /\ last_poll' = [last_poll EXCEPT ![wi] = r]
           /\ failed_seen' = (failed_seen \/ r.finished_failed)
           /\ always_running' =
                [always_running EXCEPT ![wi] = @ /\ ~r.final]
    /\ ok_polls' = ok_polls + 1
    /\ \E dt \in PollTimes : elapsed' = clock_after(elapsed, dt)
    /\ UNCHANGED <<maximum_failures, progress_handler, start_results,
                   required_successes, urls, passes, polled, poll_config,
                   next_delay, sleeps>>
    /\ UNCHANGED notWaitVars

\* ------------------------------------------------------------------------
\* Specifications
\* ------------------------------------------------------------------------
\* ---------------------------------------------------------------------
\* GET /list (api.py lines 80-95)

Requests == 1..MaxRequests

\* two ListRequest values that differ (ipc.ListRequest.storage)
ListRequests == {"", "x"}

\* c.state.cached_list_response is None
NoCache == [isNone |-> TRUE, list_request |-> "", list_response |-> <<>>,
            timestamp |-> 0]

\* CachedListResponse(list_request=, list_response=), stamped at creation
CachedListResponse(lreq, resp, now) ==
    [isNone |-> FALSE, list_request |-> lreq, list_response |-> resp,
     timestamp |-> now]

\* list_backups(req=req, json_mstorage=...): what the storage holds now
list_backups(lreq, stored) == <<lreq, stored>>

\* what the client receives
NoResponse == [status_code |-> 0, body |-> <<>>]
Ok(body) == [status_code |-> 200, body |-> body]
Busy == [status_code |-> 429, body |-> <<"Already caching list result">>]
ServerError == [status_code |-> 500, body |-> <<>>]

\* line 85 (faulty variant: the timestamp is not subtracted)
cache_age_since_start(now, cached) == now
cache_age(now, cached) == now - cached.timestamp

\* line 86, second operand (faulty variant: the requests are not compared)
same_request_always(cached, lreq) == TRUE
same_request(cached, lreq) == cached.list_request = lreq

\* lines 84-86: the cached response answers the request
cache_answers(cached, now, ttl, lreq) ==
    /\ ~cached.isNone
    /\ cache_age(now, cached) < ttl
    /\ same_request(cached, lreq)

\* line 88 (faulty variant: the flag is not looked at)
already_caching_never(running) == FALSE
already_caching(running) == running

InitList ==
    /\ list_ttl \in 1..MaxTtl
    /\ sync_lock = 0
    /\ cached_list_response = NoCache
    /\ cached_list_running = FALSE
    /\ monotonic = 0
    /\ storage = 0
    /\ lpc_list = [t \in Requests |-> "idle"]
    /\ list_req = [t \in Requests |-> ""]
    /\ list_response = [t \in Requests |-> <<>>]
    /\ http_response = [t \in Requests |-> NoResponse]
    /\ seen_cache = [t \in Requests |-> NoCache]
    /\ seen_running = [t \in Requests |-> FALSE]
    /\ list_calls = 0
    /\ list_raised = 0

\* a GET /list arrives: its handler runs in a thread of its own (line 81)
ListRequestArrives(t, lreq) ==
    /\ lpc_list[t] = "idle"
    /\ lpc_list' = [lpc_list EXCEPT ![t] = "enter"]
    /\ list_req' = [list_req EXCEPT ![t] = lreq]
    /\ UNCHANGED <<list_ttl, sync_lock, cached_list_response,
                   cached_list_running, monotonic, storage, list_response,
                   http_response, seen_cache, seen_running, list_calls,
                   list_raised>>
    /\ UNCHANGED notListVars

\* line 82 and line 92: with c.sync_lock (entry)
AcquireSyncLock(t) ==
    /\ lpc_list[t] \in {"enter", "built"}
    /\ sync_lock = 0
    /\ sync_lock' = t
    /\ lpc_list' = [lpc_list EXCEPT ![t] = IF @ = "enter" THEN "check"
                                          ELSE "store"]
    /\ UNCHANGED <<list_ttl, cached_list_response, cached_list_running,
                   monotonic, storage, list_req, list_response,
                   http_response, seen_cache, seen_running, list_calls,
                   list_raised>>
    /\ UNCHANGED notListVars

\* lines 83-90, the mutex being released on the way out
CheckCache(t) ==
    /\ lpc_list[t] = "check"
    /\ sync_lock = t
    /\ sync_lock' = 0
    /\ seen_cache' = [seen_cache EXCEPT ![t] = cached_list_response]
    /\ seen_running' = [seen_running EXCEPT ![t] = cached_list_running]
    /\ IF cache_answers(cached_list_response, monotonic, list_ttl, list_req[t])
       THEN /\ http_response' = [http_response EXCEPT
                    ![t] = Ok(cached_list_response.list_response)]
            /\ lpc_list' = [lpc_list EXCEPT ![t] = "done"]
            /\ UNCHANGED cached_list_running
       ELSE IF already_caching(cached_list_running)
       THEN /\ http_response' = [http_response EXCEPT ![t] = Busy]
            /\ lpc_list' = [lpc_list EXCEPT ![t] = "done"]
            /\ UNCHANGED cached_list_running
       ELSE /\ cached_list_running' = TRUE
            /\ lpc_list' = [lpc_list EXCEPT ![t] = "build"]
            /\ UNCHANGED http_response
    /\ UNCHANGED <<list_ttl, cached_list_response, monotonic, storage,
                   list_req, list_response, list_calls, list_raised>>
    /\ UNCHANGED notListVars

\* line 91: list_backups returns
ListBackupsReturns(t) ==
    /\ lpc_list[t] = "build"
    /\ list_response' = [list_response EXCEPT
            ![t] = list_backups(list_req[t], storage)]
    /\ list_calls' = list_calls + 1
    /\ lpc_list' = [lpc_list EXCEPT ![t] = "built"]
    /\ UNCHANGED <<list_ttl, sync_lock, cached_list_response,
                   cached_list_running, monotonic, storage, list_req,
                   http_response, seen_cache, seen_running, list_raised>>
    /\ UNCHANGED notListVars

\* line 91: list_backups raises (the storage cannot be read); the exception
\* leaves the handler
ListBackupsRaises(t) ==
    /\ lpc_list[t] = "build"
    /\ list_calls' = list_calls + 1
    /\ list_raised' = list_raised + 1
    /\ http_response' = [http_response EXCEPT ![t] = ServerError]
    /\ lpc_list' = [lpc_list EXCEPT ![t] = "done"]
    /\ UNCHANGED <<list_ttl, sync_lock, cached_list_response,
                   cached_list_running, monotonic, storage, list_req,
                   list_response, seen_cache, seen_running>>
    /\ UNCHANGED notListVars

\* lines 93-95, the mutex being released on the way out
StoreListResponse(t) ==
    /\ lpc_list[t] = "store"
    /\ sync_lock = t
    /\ sync_lock' = 0
    /\ cached_list_response' =
            CachedListResponse(list_req[t], list_response[t], monotonic)
    /\ cached_list_running' = FALSE
    /\ http_response' = [http_response EXCEPT ![t] = Ok(list_response[t])]
    /\ lpc_list' = [lpc_list EXCEPT ![t] = "done"]
    /\ UNCHANGED <<list_ttl, monotonic, storage, list_req, list_response,
                   seen_cache, seen_running, list_calls, list_raised>>
    /\ UNCHANGED notListVars

\* time passes
ClockTicks ==
    /\ monotonic < MaxClock
    /\ monotonic' = monotonic + 1
    /\ UNCHANGED <<list_ttl, sync_lock, cached_list_response,
                   cached_list_running, storage, lpc_list, list_req,
                   list_response, http_response, seen_cache, seen_running,
                   list_calls, list_raised>>
    /\ UNCHANGED notListVars

\* a backup operation adds a backup to the storage
BackupStored ==
    /\ storage < MaxBackups
    /\ storage' = storage + 1
    /\ UNCHANGED <<list_ttl, sync_lock, cached_list_response,
                   cached_list_running, monotonic, lpc_list, list_req,
                   list_response, http_response, seen_cache, seen_running,
                   list_calls, list_raised>>
    /\ UNCHANGED notListVars

\* ---------------------------------------------------------------------
\* ---------------------------------------------------------------------
\* build_node_index_datas (plugins/base.py lines 339-373)

Hexdigests == 1..MaxDigests

\* ipc.SnapshotHash
SnapshotHash == [hexdigest : Hexdigests, size : 1..MaxSize]

\* the lists of at most n elements of S
RECURSIVE ListsUpTo(_, _)
ListsUpTo(S, n) ==
    IF n = 0 THEN {<<>>}
    ELSE LET shorter == ListsUpTo(S, n - 1)
         IN shorter \cup {Append(l, x) : l \in {k \in shorter : Len(k) = n - 1},
                                         x \in S}

\* ipc.SnapshotResult.hashes: None, or a list of SnapshotHash
SnapshotResults ==
    {[isNone |-> TRUE, hashes |-> <<>>]}
        \cup {[isNone |-> FALSE, hashes |-> l] :
                l \in ListsUpTo(SnapshotHash, MaxHashes)}

\* line 353: snapshot_result.hashes or []
hashes_or_empty(snapshot_result) ==
    IF snapshot_result.isNone THEN <<>> ELSE snapshot_result.hashes

\* SnapshotHash.__eq__ and __hash__: a hash is identified by its hexdigest
sshash_eq(a, b) == a.hexdigest = b.hexdigest

\* line 354: sshash_to_node_indexes.setdefault(snapshot_hash, []).append(i);
\* the dict is kept as the list of its items in insertion order
setdefault_append(items, snapshot_hash, i) ==
    IF \E k \in 1..Len(items) : sshash_eq(items[k].sshash, snapshot_hash)
    THEN [k \in 1..Len(items) |->
            IF sshash_eq(items[k].sshash, snapshot_hash)
            THEN [items[k] EXCEPT !.indexes = Append(@, i)]
            ELSE items[k]]
    ELSE Append(items, [sshash |-> snapshot_hash, indexes |-> <<i>>])

\* lines 353-354: the hashes of snapshot i from the j-th on
RECURSIVE add_hashes(_, _, _, _)
add_hashes(items, hashes, i, j) ==
    IF j > Len(hashes) THEN items
    ELSE add_hashes(setdefault_append(items, hashes[j], i), hashes, i, j + 1)

\* lines 351-354: the snapshots from the i-th on
RECURSIVE sshash_to_node_indexes(_, _, _)
sshash_to_node_indexes(items, snaps, i) ==
    IF i > Len(snaps) THEN items
    ELSE sshash_to_node_indexes(
            add_hashes(items, hashes_or_empty(snaps[i]), i, 1), snaps, i + 1)

\* lines 362-364: _sshash_to_node_indexes_key
sshash_to_node_indexes_key(item) == <<Len(item.indexes), -item.sshash.size>>

\* the order of Python tuples of two integers
tuple_less(a, b) == a[1] < b[1] \/ (a[1] = b[1] /\ a[2] < b[2])

\* sorted() is stable: an item goes behind the items whose key is not larger
RECURSIVE insert_sorted(_, _)
insert_sorted(sorted_items, item) ==
    IF sorted_items = <<>> THEN <<item>>
    ELSE IF tuple_less(sshash_to_node_indexes_key(item),
                       sshash_to_node_indexes_key(Head(sorted_items)))
         THEN <<item>> \o sorted_items
         ELSE <<Head(sorted_items)>> \o insert_sorted(Tail(sorted_items), item)

\* line 366: sorted(sshash_to_node_indexes.items(), key=...), from the
\* k-th item on; an item inserted later never overtakes an equal one
RECURSIVE sorted_by_key(_, _, _)
sorted_by_key(done_items, items, k) ==
    IF k > Len(items) THEN done_items
    ELSE sorted_by_key(insert_sorted(done_items, items[k]), items, k + 1)

\* line 356: NodeIndexData(node_index=node_index), with its defaults
NodeIndexData(node_index) ==
    [node_index |-> node_index, sshashes |-> <<>>, total_size |-> 0]

\* lines 344-346: NodeIndexData.append_sshash
append_sshash(node_index_data, sshash) ==
    [node_index_data EXCEPT !.total_size = @ + sshash.size,
                 !.sshashes = Append(@, sshash)]

\* line 371: min((node_index_datas[node_index].total_size, node_index) ...)
\* (faulty variant: the first of the nodes that have the hash)
least_loaded_first(datas, node_indexes) == node_indexes[1]
least_loaded_most(datas, node_indexes) ==
    CHOOSE i \in {node_indexes[k] : k \in 1..Len(node_indexes)} :
        \A j \in {node_indexes[k] : k \in 1..Len(node_indexes)} :
            j # i => datas[j].total_size <= datas[i].total_size
least_loaded(datas, node_indexes) ==
    CHOOSE i \in {node_indexes[k] : k \in 1..Len(node_indexes)} :
        \A j \in {node_indexes[k] : k \in 1..Len(node_indexes)} :
            j # i => tuple_less(<<datas[i].total_size, i>>,
                                <<datas[j].total_size, j>>)

\* lines 369-370 (faulty variant: the stored hexdigests are not looked at)
already_stored_never(stored, snapshot_hash) == FALSE
already_stored(stored, snapshot_hash) == snapshot_hash.hexdigest \in stored

\* lines 368-372 read hexdigests and never write it (faulty variant: the
\* hexdigest that is assigned is added)
hexdigests_after_assigned(stored, snapshot_hash) ==
    stored \cup {snapshot_hash.hexdigest}
hexdigests_after(stored, snapshot_hash) == stored

\* line 373: the nodes that were given something, in the order of the nodes
\* (faulty variant: every node)
with_sshashes_all(datas, i) == datas
RECURSIVE with_sshashes(_, _)
with_sshashes(datas, i) ==
    IF i > Len(datas) THEN <<>>
    ELSE (IF datas[i].sshashes # <<>> THEN <<datas[i]>> ELSE <<>>)
            \o with_sshashes(datas, i + 1)

\* a SnapshotResult with the given hashes
SnapshotOf(hashes) == [isNone |-> FALSE, hashes |-> hashes]

\* two nodes that share their largest file, nothing stored yet
ScenarioShared ==
    [hexdigests |-> {},
     snapshots |->
        <<SnapshotOf(<<[hexdigest |-> 1, size |-> 10],
                       [hexdigest |-> 2, size |-> 5]>>),
          SnapshotOf(<<[hexdigest |-> 1, size |-> 10],
                       [hexdigest |-> 3, size |-> 7]>>)>>]

\* the second node has only a file that is stored already
ScenarioStored ==
    [hexdigests |-> {1},
     snapshots |->
        <<SnapshotOf(<<[hexdigest |-> 1, size |-> 10],
                       [hexdigest |-> 2, size |-> 5]>>),
          SnapshotOf(<<[hexdigest |-> 1, size |-> 10]>>)>>]

Scenarios == {ScenarioShared, ScenarioStored}

\* the arguments of UploadBlocksStep.run_step's call (lines 120-124)
InitDist ==
    /\ \/ /\ \E n \in 1..MaxDistNodes : snapshots \in [1..n -> SnapshotResults]
          /\ hexdigests \in SUBSET Hexdigests
       \/ \E scenario \in Scenarios :
            /\ snapshots = scenario.snapshots
            /\ hexdigests = scenario.hexdigests
    /\ node_indices = [i \in 1..Len(snapshots) |-> i - 1]
    /\ dpc = "idle"
    /\ todo = <<>>
    /\ node_index_datas = <<>>
    /\ build_results = <<>>
    /\ given = <<hexdigests, snapshots, node_indices>>
    /\ uploaded = <<>>

\* lines 349-366: up to the loop over todo
build_node_index_datas ==
    /\ dpc = "idle"
    /\ Len(build_results) < MaxBuilds
    /\ Len(snapshots) = Len(node_indices)
    /\ todo' = sorted_by_key(<<>>, sshash_to_node_indexes(<<>>, snapshots, 1), 1)
    /\ node_index_datas' =
            [i \in 1..Len(node_indices) |-> NodeIndexData(node_indices[i])]
    /\ dpc' = "todo"
    /\ UNCHANGED <<hexdigests, snapshots, node_indices, build_results, given,
                   uploaded>>
    /\ UNCHANGED notDistVars

\* lines 367-372: one item of todo
AssignHash ==
    /\ dpc = "todo"
    /\ todo # <<>>
    /\ LET snapshot_hash == Head(todo).sshash
           node_indexes == Head(todo).indexes
       IN IF already_stored(hexdigests, snapshot_hash)
          THEN UNCHANGED <<node_index_datas, hexdigests>>
          ELSE LET node_index == least_loaded(node_index_datas, node_indexes)
               IN /\ node_index_datas' =
                        [node_index_datas EXCEPT
                            ![node_index] = append_sshash(@, snapshot_hash)]
                  /\ hexdigests' = hexdigests_after(hexdigests, snapshot_hash)
    /\ todo' = Tail(todo)
    /\ UNCHANGED <<snapshots, node_indices, dpc, build_results, given,
                   uploaded>>
    /\ UNCHANGED notDistVars

\* line 373
ReturnNodeIndexDatas ==
    /\ dpc = "todo"
    /\ todo = <<>>
    /\ build_results' = Append(build_results, with_sshashes(node_index_datas, 1))
    /\ dpc' = "idle"
    /\ UNCHANGED <<hexdigests, snapshots, node_indices, todo,
                   node_index_datas, given, uploaded>>
    /\ UNCHANGED notDistVars

\* the hexdigests of a returned plan
PlanDigests(plan) ==
    UNION {{plan[i].sshashes[j].hexdigest : j \in 1..Len(plan[i].sshashes)} :
            i \in 1..Len(plan)}

\* lines 119-125: the nodes upload what the plan gives them, and the next
\* backup's ListHexdigestsStep finds it in the object storage
UploadStored ==
    /\ dpc = "idle"
    /\ build_results # <<>>
    /\ build_results[Len(build_results)] # <<>>
    /\ LET plan == build_results[Len(build_results)]
       IN /\ hexdigests' = hexdigests \cup PlanDigests(plan)
          /\ uploaded' = Append(uploaded, plan)
    /\ given' = <<hexdigests', snapshots, node_indices>>
    /\ build_results' = <<>>
    /\ UNCHANGED <<snapshots, node_indices, dpc, todo, node_index_datas>>
    /\ UNCHANGED notDistVars

\* ---------------------------------------------------------------------
\* get_node_to_backup_index (plugins/base.py lines 238-336)

\* availability zones
AZs == {"x", "y"}

\* node_to_backup_index[i] is None
NoBackup == -1

\* the i-th node has url i and the i-th snapshot hostname i, counted from 0
NodesOf(azs) == [i \in 1..Len(azs) |-> [az |-> azs[i], url |-> i - 1]]
SnapshotsOf(azs) == [i \in 1..Len(azs) |-> [az |-> azs[i], hostname |-> i - 1]]

\* the lists of one to n availability zones
AZLists(n) == ListsUpTo(AZs, n) \ {<<>>}

\* ipc.PartialRestoreRequestNode: a node by index or by url, a snapshot by
\* index or by hostname; indexes from -1 on, urls and hostnames from 0 on,
\* the largest ones being those of no node and of no snapshot
PartialRestoreRequestNodes ==
    [node_by : {"node_index", "node_url"}, node : -1..MaxPartialNodes,
     backup_by : {"backup_index", "backup_hostname"},
     backup : -1..MaxPartialNodes]
        \ {e \in [node_by : {"node_index", "node_url"},
                  node : -1..MaxPartialNodes,
                  backup_by : {"backup_index", "backup_hostname"},
                  backup : -1..MaxPartialNodes] :
            \/ e.node_by = "node_url" /\ e.node < 0
            \/ e.backup_by = "backup_hostname" /\ e.backup < 0}

\* no exception
NotRaised == [exception |-> "", check |-> ""]
Raised(exception, check) == [exception |-> exception, check |-> check]

\* Counter(...): the items in the order of their first occurrence
RECURSIVE Counter(_, _, _)
Counter(counts, azs, i) ==
    IF i > Len(azs) THEN counts
    ELSE Counter(
            IF \E k \in 1..Len(counts) : counts[k][1] = azs[i]
            THEN [k \in 1..Len(counts) |->
                    IF counts[k][1] = azs[i]
                    THEN <<counts[k][1], counts[k][2] + 1>> ELSE counts[k]]
            ELSE Append(counts, <<azs[i], 1>>),
            azs, i + 1)

\* the availability zones of the nodes, or of the snapshots, in order
azs_of(records) == [i \in 1..Len(records) |-> records[i].az]

\* Counter.most_common(): by descending count, equal counts in the order of
\* first occurrence (faulty variant: not sorted)
RECURSIVE insert_by_count(_, _)
insert_by_count(sorted_counts, item) ==
    IF sorted_counts = <<>> THEN <<item>>
    ELSE IF item[2] > Head(sorted_counts)[2]
         THEN <<item>> \o sorted_counts
         ELSE <<Head(sorted_counts)>> \o insert_by_count(Tail(sorted_counts), item)

RECURSIVE sort_by_count(_, _, _)
sort_by_count(sorted_counts, counts, k) ==
    IF k > Len(counts) THEN sorted_counts
    ELSE sort_by_count(insert_by_count(sorted_counts, counts[k]), counts, k + 1)

most_common_unsorted(counts) == counts
most_common(counts) == sort_by_count(<<>>, counts, 1)

\* line 320: zip(...)
zip(a, b) ==
    [k \in 1..Min(Len(a), Len(b)) |->
        [backup_az |-> a[k][1], backup_n |-> a[k][2],
         node_az |-> b[k][1], node_n |-> b[k][2]]]

\* line 244: if partial_restore_nodes (faulty variant: never)
has_partial_never(given_kind) == FALSE
has_partial(given_kind) == given_kind = "list"

\* line 252 (faulty variant: not checked)
insufficient_nodes_never(configured_nodes, covered_nodes) == FALSE
insufficient_nodes(configured_nodes, covered_nodes) ==
    configured_nodes < covered_nodes

\* line 258 (faulty variant: not checked)
insufficient_azs_never(azs_in_backup, azs_in_nodes) == FALSE
insufficient_azs(azs_in_backup, azs_in_nodes) ==
    Len(azs_in_backup) > Len(azs_in_nodes)

\* line 333: the node is of the AZ and has no snapshot yet (faulty variant:
\* a node that has one is taken again)
node_is_free_again(assignment, nodes_arg, node_az, i) ==
    nodes_arg[i].az = node_az
node_is_free(assignment, nodes_arg, node_az, i) ==
    nodes_arg[i].az = node_az /\ assignment[i] = NoBackup

\* lines 332-336: the first free node of the AZ gets the snapshot
assign_snapshot(assignment, nodes_arg, node_az, backup_index) ==
    LET free == {i \in 1..Len(nodes_arg) :
                    node_is_free(assignment, nodes_arg, node_az, i)}
    IN IF free = {} THEN assignment
       ELSE [assignment EXCEPT
                ![CHOOSE i \in free : \A j \in free : i <= j] = backup_index]

\* lines 329-336: the snapshots of backup_az from the k-th on
RECURSIVE assign_az(_, _, _, _, _)
assign_az(assignment, snaps, nodes_arg, pair, k) ==
    IF k > Len(snaps) THEN assignment
    ELSE assign_az(
            IF snaps[k].az = pair.backup_az
            THEN assign_snapshot(assignment, nodes_arg, pair.node_az, k - 1)
            ELSE assignment,
            snaps, nodes_arg, pair, k + 1)

\* dict.get(...) gives None
NoIndex == NoBackup

\* lines 277-278 and 291: url_to_node_index.get(req_node.node_url)
url_to_node_index(nodes_arg, url) ==
    IF \E i \in 1..Len(nodes_arg) : nodes_arg[i].url = url
    THEN (CHOOSE i \in 1..Len(nodes_arg) :
            /\ nodes_arg[i].url = url
            /\ \A j \in 1..Len(nodes_arg) : nodes_arg[j].url = url => j <= i) - 1
    ELSE NoIndex

\* lines 279-280 and 304: hostname_to_backup_index.get(req_node.backup_hostname)
hostname_to_backup_index(snaps, hostname) ==
    IF \E i \in 1..Len(snaps) : snaps[i].hostname = hostname
    THEN (CHOOSE i \in 1..Len(snaps) :
            /\ snaps[i].hostname = hostname
            /\ \A j \in 1..Len(snaps) : snaps[j].hostname = hostname => j <= i) - 1
    ELSE NoIndex

\* lines 285 and 298: the index is out of range
index_out_of_range(index, n) == index < 0 \/ index >= n

\* lines 282-295: the node of an entry, or the exception
node_of(nodes_arg, req_node) ==
    IF req_node.node_by = "node_index"
    THEN IF index_out_of_range(req_node.node, Len(nodes_arg))
         THEN [index |-> NoIndex, check |-> "node_index"]
         ELSE [index |-> req_node.node, check |-> ""]
    ELSE [index |-> url_to_node_index(nodes_arg, req_node.node),
          check |-> IF url_to_node_index(nodes_arg, req_node.node) = NoIndex
                    THEN "node_url" ELSE ""]

\* lines 296-308: the snapshot of an entry, or the exception
backup_of(snaps, req_node) ==
    IF req_node.backup_by = "backup_index"
    THEN IF index_out_of_range(req_node.backup, Len(snaps))
         THEN [index |-> NoIndex, check |-> "backup_index"]
         ELSE [index |-> req_node.backup, check |-> ""]
    ELSE [index |-> hostname_to_backup_index(snaps, req_node.backup),
          check |-> IF hostname_to_backup_index(snaps, req_node.backup) = NoIndex
                    THEN "backup_hostname" ELSE ""]

\* the arguments RestoreStep-s give: the configured nodes, the snapshot
\* results of the backup manifest, the request's partial_restore_nodes
InitPlace ==
    /\ \/ /\ partial_given \in {"none", "empty"}
          /\ \E a, b \in AZLists(MaxPlaceNodes) :
                /\ restore_nodes = NodesOf(a)
                /\ snapshot_results = SnapshotsOf(b)
       \/ /\ partial_given = "list"
          /\ \E a, b \in AZLists(MaxPartialNodes) :
                /\ restore_nodes = NodesOf(a)
                /\ snapshot_results = SnapshotsOf(b)
    /\ req_nodes = <<>>
    /\ gpc = "idle"
    /\ node_to_backup_index = <<>>
    /\ az_pairs = <<>>
    /\ pair_i = 0
    /\ raised = NotRaised

\* lines 238-267, up to the call of one of the two helpers and the creation
\* of its node_to_backup_index (lines 274, 319)
get_node_to_backup_index ==
    /\ gpc = "idle"
    /\ LET azs_in_backup == Counter(<<>>, azs_of(snapshot_results), 1)
           azs_in_nodes == Counter(<<>>, azs_of(restore_nodes), 1)
           nones == [i \in 1..Len(restore_nodes) |-> NoBackup]
       IN IF has_partial(partial_given)
          THEN /\ gpc' = "partial"
               /\ node_to_backup_index' = nones
               /\ UNCHANGED <<az_pairs, raised>>
          ELSE IF insufficient_nodes(Len(restore_nodes), Len(snapshot_results))
          THEN /\ gpc' = "raised"
               /\ raised' = Raised("InsufficientNodesException", "nodes")
               /\ UNCHANGED <<az_pairs, node_to_backup_index>>
          ELSE IF insufficient_azs(azs_in_backup, azs_in_nodes)
          THEN /\ gpc' = "raised"
               /\ raised' = Raised("InsufficientAZsException", "azs")
               /\ UNCHANGED <<az_pairs, node_to_backup_index>>
          ELSE /\ gpc' = "azs"
               /\ az_pairs' = zip(most_common(azs_in_backup),
                                  most_common(azs_in_nodes))
               /\ node_to_backup_index' = nones
               /\ UNCHANGED raised
    /\ UNCHANGED <<restore_nodes, snapshot_results, partial_given, req_nodes,
                   pair_i>>
    /\ UNCHANGED notPlaceVars

\* lines 281-308: one entry of partial_restore_nodes
PartialRestoreNode(req_node) ==
    /\ gpc = "partial"
    /\ Len(req_nodes) < MaxPartial
    /\ req_nodes' = Append(req_nodes, req_node)
    /\ LET node == node_of(restore_nodes, req_node)
           backup == backup_of(snapshot_results, req_node)
       IN IF node.check # ""
          THEN /\ gpc' = "raised"
               /\ raised' = Raised("NotFoundException", node.check)
               /\ UNCHANGED node_to_backup_index
          ELSE IF backup.check # ""
          THEN /\ gpc' = "raised"
               /\ raised' = Raised("NotFoundException", backup.check)
               /\ UNCHANGED node_to_backup_index
          ELSE /\ node_to_backup_index' =
                    [node_to_backup_index EXCEPT ![node.index + 1] = backup.index]
               /\ UNCHANGED <<gpc, raised>>
    /\ UNCHANGED <<restore_nodes, snapshot_results, partial_given, az_pairs,
                   pair_i>>
    /\ UNCHANGED notPlaceVars

\* line 309: the entries have all been read
ReturnFromPartial ==
    /\ gpc = "partial"
    /\ req_nodes # <<>>
    /\ gpc' = "returned"
    /\ UNCHANGED <<restore_nodes, snapshot_results, partial_given, req_nodes,
                   node_to_backup_index, az_pairs, pair_i, raised>>
    /\ UNCHANGED notPlaceVars

\* lines 320-335: one pair of the zip
PlaceAZPair ==
    /\ gpc = "azs"
    /\ pair_i < Len(az_pairs)
    /\ pair_i' = pair_i + 1
    /\ LET pair == az_pairs[pair_i + 1]
       IN IF pair.backup_n > pair.node_n
          THEN /\ gpc' = "raised"
               /\ raised' = Raised("InsufficientNodesException", "az_pair")
               /\ UNCHANGED node_to_backup_index
          ELSE /\ node_to_backup_index' =
                    assign_az(node_to_backup_index, snapshot_results,
                              restore_nodes, pair, 1)
               /\ UNCHANGED <<gpc, raised>>
    /\ UNCHANGED <<restore_nodes, snapshot_results, partial_given, req_nodes,
                   az_pairs>>
    /\ UNCHANGED notPlaceVars

\* line 336
ReturnFromAZs ==
    /\ gpc = "azs"
    /\ pair_i = Len(az_pairs)
    /\ gpc' = "returned"
    /\ UNCHANGED <<restore_nodes, snapshot_results, partial_given, req_nodes,
                   node_to_backup_index, az_pairs, pair_i, raised>>
    /\ UNCHANGED notPlaceVars

\* ---------------------------------------------------------------------
\* StepsContext and the steps of the ClickHouse plugin
\* (plugins/base.py lines 53-70, plugins/clickhouse/plugin.py)

\* the values a step may return
StepResultValues == 1..MaxResults

\* a mutation: the snapshot is taken before the tables are frozen
ClickHouseBackupStepsUnordered ==
    <<"ValidateConfigStep", "RetrieveAccessEntitiesStep",
      "RetrieveReplicatedDatabasesStep", "RetrieveTablesStep",
      "RemoveFrozenTablesStep", "SnapshotStep", "FreezeTablesStep",
      "ListHexdigestsStep", "UploadBlocksStep", "UnfreezeTablesStep",
      "MoveFrozenPartsStep", "DistributeReplicatedPartsStep",
      "CreateClickHouseManifestStep", "UploadManifestStep">>

\* ClickHousePlugin.get_backup_steps: the classes of the steps, in order
ClickHouseBackupSteps ==
    <<"ValidateConfigStep", "RetrieveAccessEntitiesStep",
      "RetrieveReplicatedDatabasesStep", "RetrieveTablesStep",
      "RemoveFrozenTablesStep", "FreezeTablesStep", "SnapshotStep",
      "ListHexdigestsStep", "UploadBlocksStep", "UnfreezeTablesStep",
      "MoveFrozenPartsStep", "DistributeReplicatedPartsStep",
      "CreateClickHouseManifestStep", "UploadManifestStep">>

\* ClickHousePlugin.get_restore_steps: the classes of the steps, in order
ClickHouseRestoreSteps ==
    <<"ValidateConfigStep", "BackupNameStep", "BackupManifestStep",
      "ClickHouseManifestStep", "RestoreReplicatedDatabasesStep",
      "RestoreStep", "AttachMergeTreePartsStep", "SyncReplicasStep",
      "RestoreAccessEntitiesStep">>

\* the step classes of the plugin
StepClasses ==
    {ClickHouseBackupSteps[k] : k \in 1..Len(ClickHouseBackupSteps)}
        \cup {ClickHouseRestoreSteps[k] : k \in 1..Len(ClickHouseRestoreSteps)}

\* the classes used as keys when the context is called directly
SomeStepClasses == {ClickHouseBackupSteps[k] : k \in 1..MaxStepClasses}

\* a mutation: the tables are asked for before they are retrieved
reads_unordered(step_class) ==
    IF step_class = "RetrieveAccessEntitiesStep"
    THEN <<"RetrieveTablesStep">>
    ELSE <<>>

\* the step classes whose result run_step of a step class asks of the
\* context, in the order of the get_result calls
reads(step_class) ==
    CASE step_class = "RetrieveTablesStep" ->
            <<"RetrieveReplicatedDatabasesStep">>
      [] step_class \in {"FreezeTablesStep", "UnfreezeTablesStep"} ->
            <<"RetrieveTablesStep">>
      [] step_class = "UploadBlocksStep" ->
            <<"ListHexdigestsStep", "SnapshotStep">>
      [] step_class = "MoveFrozenPartsStep" -> <<"SnapshotStep">>
      [] step_class = "DistributeReplicatedPartsStep" ->
            <<"SnapshotStep", "RetrieveTablesStep">>
      [] step_class = "CreateClickHouseManifestStep" ->
            <<"RetrieveAccessEntitiesStep",
              "RetrieveReplicatedDatabasesStep", "RetrieveTablesStep">>
      [] step_class = "UploadManifestStep" ->
            <<"CreateClickHouseManifestStep", "SnapshotStep",
              "UploadBlocksStep">>
      [] step_class = "BackupManifestStep" -> <<"BackupNameStep">>
      [] step_class = "ClickHouseManifestStep" -> <<"BackupManifestStep">>
      [] step_class \in {"RestoreReplicatedDatabasesStep",
                         "SyncReplicasStep", "RestoreAccessEntitiesStep"} ->
            <<"ClickHouseManifestStep">>
      [] step_class = "RestoreStep" ->
            <<"BackupNameStep", "BackupManifestStep">>
      [] step_class = "AttachMergeTreePartsStep" ->
            <<"BackupManifestStep", "ClickHouseManifestStep">>
      [] OTHER -> <<>>

\* StepsContext.__init__: self.step_results = {}
NoResults == [step_class \in {} |-> 1]

\* a mutation: no result is ever found already set
has_result_never(mapping, step_class) == FALSE

\* line 68: step_class in self.step_results
has_result(mapping, step_class) == step_class \in DOMAIN mapping

\* line 70: self.step_results[step_class] = result
store_result(mapping, step_class, result) ==
    [k \in DOMAIN mapping \cup {step_class} |->
        IF k = step_class THEN result ELSE mapping[k]]

\* lines 67-70: the call set_result(step_class, result) and its outcome
set_result_call(mapping, step_class, result) ==
    [method |-> "set_result", step_class |-> step_class,
     result |-> <<result>>,
     raised |-> IF has_result(mapping, step_class) THEN "RuntimeError"
                ELSE "",
     returned |-> <<>>]

\* lines 67-70: the mapping after set_result(step_class, result)
after_set_result(mapping, step_class, result) ==
    IF has_result(mapping, step_class) THEN mapping
    ELSE store_result(mapping, step_class, result)

\* lines 64-65: the call get_result(step_class) and its outcome (a dict
\* raises KeyError for a missing key)
get_result_call(mapping, step_class) ==
    [method |-> "get_result", step_class |-> step_class, result |-> <<>>,
     raised |-> IF step_class \in DOMAIN mapping THEN "" ELSE "KeyError",
     returned |-> IF step_class \in DOMAIN mapping
                  THEN <<mapping[step_class]>> ELSE <<>>]

\* the get_result calls of a run_step, up to the first that raises
RECURSIVE get_result_calls(_, _)
get_result_calls(mapping, step_classes) ==
    IF step_classes = <<>> THEN <<>>
    ELSE LET first == get_result_call(mapping, Head(step_classes))
         IN IF first.raised # "" THEN <<first>>
            ELSE <<first>> \o get_result_calls(mapping, Tail(step_classes))

\* a StepsContext of an operation for which the plugin gave no steps yet
InitSteps ==
    /\ step_results = NoResults
    /\ ctx_history = <<>>
    /\ plugin_op \in {"backup", "restore"}
    /\ partial_req \in {"none", "empty", "list"}
    /\ plugin_op = "backup" => partial_req = "none"
    /\ steps = <<>>
    /\ step_i = 0
    /\ ppc = "idle"
    /\ attempt = 1
    /\ step_log = <<>>
    /\ pipeline_raised = ""

\* StepsContext.set_result called by some code holding the context
set_result(step_class, result) ==
    /\ ppc = "idle"
    /\ Len(ctx_history) < MaxContextCalls
    /\ ctx_history' =
        Append(ctx_history, set_result_call(step_results, step_class, result))
    /\ step_results' = after_set_result(step_results, step_class, result)
    /\ UNCHANGED <<plugin_op, partial_req, steps, step_i, ppc, attempt,
                   step_log, pipeline_raised>>
    /\ UNCHANGED notCtxVars

\* StepsContext.get_result called by some code holding the context
get_result(step_class) ==
    /\ ppc = "idle"
    /\ Len(ctx_history) < MaxContextCalls
    /\ ctx_history' =
        Append(ctx_history, get_result_call(step_results, step_class))
    /\ UNCHANGED <<step_results, plugin_op, partial_req, steps, step_i, ppc,
                   attempt, step_log, pipeline_raised>>
    /\ UNCHANGED notCtxVars

\* ClickHousePlugin.get_backup_steps (lines 29-60)
get_backup_steps ==
    /\ ppc = "idle"
    /\ plugin_op = "backup"
    /\ steps' = ClickHouseBackupSteps
    /\ step_i' = 1
    /\ ppc' = "ready"
    /\ UNCHANGED <<step_results, ctx_history, plugin_op, partial_req,
                   attempt, step_log, pipeline_raised>>
    /\ UNCHANGED notCtxVars

\* a mutation: the request for a partial restore is not looked at
partial_restore_ignored(partial) == FALSE

\* line 63: if req.partial_restore_nodes
partial_restore_requested(partial) == partial = "list"

\* ClickHousePlugin.get_restore_steps (lines 62-91)
get_restore_steps ==
    /\ ppc = "idle"
    /\ plugin_op = "restore"
    /\ IF partial_restore_requested(partial_req)
       THEN /\ pipeline_raised' = "NotImplementedError"
            /\ ppc' = "unsupported"
            /\ UNCHANGED <<steps, step_i>>
       ELSE /\ steps' = ClickHouseRestoreSteps
            /\ step_i' = 1
            /\ ppc' = "ready"
            /\ UNCHANGED pipeline_raised
    /\ UNCHANGED <<step_results, ctx_history, plugin_op, partial_req,
                   attempt, step_log>>
    /\ UNCHANGED notCtxVars

\* the runner calls run_step of the next step, which first asks the context
\* for the results it needs
StepStarts ==
    /\ ppc = "ready"
    /\ LET calls == get_result_calls(step_results, reads(steps[step_i]))
           failed == calls # <<>> /\ calls[Len(calls)].raised # ""
       IN /\ ctx_history' = ctx_history \o calls
          /\ IF failed
             THEN /\ ppc' = "fatal"
                  /\ pipeline_raised' = calls[Len(calls)].raised
                  /\ step_log' = Append(step_log, <<steps[step_i], "raised">>)
             ELSE /\ ppc' = "running"
                  /\ step_log' = Append(step_log, <<steps[step_i], "started">>)
                  /\ UNCHANGED pipeline_raised
    /\ UNCHANGED <<step_results, plugin_op, partial_req, steps, step_i,
                   attempt>>
    /\ UNCHANGED notCtxVars

\* run_step returns and the runner stores the result under the class of the
\* step
StepReturns ==
    /\ ppc = "running"
    /\ LET set_call == set_result_call(step_results, steps[step_i], attempt)
       IN /\ ctx_history' = Append(ctx_history, set_call)
          /\ step_results' =
                after_set_result(step_results, steps[step_i], attempt)
          /\ IF set_call.raised # ""
             THEN /\ ppc' = "fatal"
                  /\ pipeline_raised' = set_call.raised
                  /\ UNCHANGED <<step_i, step_log>>
             ELSE /\ step_log' =
                        Append(step_log, <<steps[step_i], "completed">>)
                  /\ step_i' = step_i + 1
                  /\ ppc' = IF step_i = Len(steps) THEN "done" ELSE "ready"
                  /\ UNCHANGED pipeline_raised
    /\ UNCHANGED <<plugin_op, partial_req, steps, attempt>>
    /\ UNCHANGED notCtxVars

\* run_step raises StepFailedError: the pipeline stops
StepFails ==
    /\ ppc = "running"
    /\ ppc' = "failed"
    /\ pipeline_raised' = "StepFailedError"
    /\ step_log' = Append(step_log, <<steps[step_i], "raised">>)
    /\ UNCHANGED <<step_results, ctx_history, plugin_op, partial_req, steps,
                   step_i, attempt>>
    /\ UNCHANGED notCtxVars

\* run_step raises a transient error: the steps are run again from the
\* first, with a fresh StepsContext, while attempts are left
StepFailsTransiently ==
    /\ ppc = "running"
    /\ step_log' = Append(step_log, <<steps[step_i], "raised">>)
    /\ IF attempt < MaxAttempts
       THEN /\ attempt' = attempt + 1
            /\ step_results' = NoResults
            /\ ctx_history' = <<>>
            /\ step_i' = 1
            /\ ppc' = "ready"
            /\ UNCHANGED pipeline_raised
       ELSE /\ ppc' = "failed"
            /\ pipeline_raised' = "TransientError"
            /\ UNCHANGED <<attempt, step_results, ctx_history, step_i>>
    /\ UNCHANGED <<plugin_op, partial_req, steps>>
    /\ UNCHANGED notCtxVars

\* The names of the backups (plugins/base.py lines 59-62, 142-172)

\* a character string is a sequence of characters; the characters that occur,
\* in the order of their code points
CodePoints ==
    <<"+", "-", "0", "1", "2", "3", "4", "5", "6", "7", "8", "9", ":", "T",
      "a", "b", "c", "k", "p", "u", "x">>

\* ord(ch)
ord(ch) == CHOOSE i \in 1..Len(CodePoints) : CodePoints[i] = ch

\* a < b on str: the first differing character decides, a proper prefix is
\* smaller
RECURSIVE str_less(_, _)
str_less(a, b) ==
    IF b = <<>> THEN FALSE
    ELSE IF a = <<>> THEN TRUE
    ELSE IF Head(a) # Head(b) THEN ord(Head(a)) < ord(Head(b))
    ELSE str_less(Tail(a), Tail(b))

\* str(n) of a decimal digit
digit(n) == CodePoints[n + 3]

\* a mutation: the fields are written without leading zeros
two_digits_unpadded(n) ==
    IF n < 10 THEN <<digit(n)>> ELSE <<digit(n \div 10), digit(n % 10)>>

\* "%02d" % n
two_digits(n) == <<digit(n \div 10), digit(n % 10)>>

\* "%04d" % n
four_digits(n) ==
    <<digit(n \div 1000), digit((n \div 100) % 10)>> \o two_digits(n % 100)

\* the datetimes given as attempt_start: utils.now(), that is in UTC, with
\* microseconds
AttemptStarts ==
    [year : {2021}, month : {9, 10}, day : {1}, hour : {9, 10},
     minute : {0}, second : {9, 10}, microsecond : {0, 500000}]

\* datetime.isoformat(timespec="seconds") of a datetime in UTC
isoformat_seconds(dt) ==
    four_digits(dt.year) \o <<"-">> \o two_digits(dt.month) \o <<"-">>
        \o two_digits(dt.day) \o <<"T">> \o two_digits(dt.hour) \o <<":">>
        \o two_digits(dt.minute) \o <<":">> \o two_digits(dt.second)
        \o <<"+", "0", "0", ":", "0", "0">>

\* magic.JSON_BACKUP_PREFIX
JSON_BACKUP_PREFIX == <<"b", "a", "c", "k", "u", "p", "-">>

\* StepsContext.backup_name (lines 59-62)
backup_name(attempt_start) ==
    JSON_BACKUP_PREFIX \o isoformat_seconds(attempt_start)

\* a < b on datetime
RECURSIVE fields_less(_, _)
fields_less(a, b) ==
    IF a = <<>> THEN FALSE
    ELSE IF Head(a) # Head(b) THEN Head(a) < Head(b)
    ELSE fields_less(Tail(a), Tail(b))

\* the fields of a datetime down to the second
seconds_of(dt) == <<dt.year, dt.month, dt.day, dt.hour, dt.minute, dt.second>>

datetime_less(a, b) ==
    fields_less(Append(seconds_of(a), a.microsecond),
                Append(seconds_of(b), b.microsecond))

\* str.startswith
startswith(s, prefix) ==
    Len(s) >= Len(prefix) /\ SubSeq(s, 1, Len(prefix)) = prefix

\* a mutation: the prefix is always added
already_prefixed_never(name) == FALSE

\* line 170: self.requested_name.startswith(magic.JSON_BACKUP_PREFIX)
already_prefixed(name) == startswith(name, JSON_BACKUP_PREFIX)

\* sorted(names)[-1]
sorted_last(names) ==
    CHOOSE n \in names : \A m \in names : ~str_less(n, m)

\* the names a restore request may give
RequestedNames ==
    {<<>>, <<"x">>, <<"b", "a", "c", "k", "u", "p">>,
     JSON_BACKUP_PREFIX \o <<"x">>,
     JSON_BACKUP_PREFIX \o JSON_BACKUP_PREFIX \o <<"x">>,
     backup_name([year |-> 2021, month |-> 9, day |-> 1, hour |-> 9,
                  minute |-> 0, second |-> 9, microsecond |-> 0])}

\* an object storage without backups, and a restore request
InitNames ==
    /\ attempt_starts = <<>>
    /\ uploaded_names = <<>>
    /\ json_storage = {}
    /\ requested_name \in RequestedNames
    /\ bpc = "idle"
    /\ name_result = <<>>

\* UploadManifestStep.run_step (lines 142-153): the manifest of an attempt is
\* stored under context.backup_name
UploadManifestStep(attempt_start) ==
    /\ bpc = "idle"
    /\ Len(attempt_starts) < MaxManifests
    /\ attempt_starts' = Append(attempt_starts, attempt_start)
    /\ uploaded_names' = Append(uploaded_names, backup_name(attempt_start))
    /\ json_storage' = json_storage \cup {backup_name(attempt_start)}
    /\ UNCHANGED <<requested_name, bpc, name_result>>
    /\ UNCHANGED notNameVars

\* BackupNameStep.run_step (lines 167-172)
BackupNameStep ==
    /\ bpc = "idle"
    /\ IF requested_name = <<>>
       THEN IF json_storage = {}
            THEN /\ bpc' = "raised"
                 /\ name_result' = <<"IndexError">>
            ELSE /\ bpc' = "returned"
                 /\ name_result' = sorted_last(json_storage)
       ELSE /\ bpc' = "returned"
            /\ name_result' =
                IF already_prefixed(requested_name)
                THEN requested_name
                ELSE JSON_BACKUP_PREFIX \o requested_name
    /\ UNCHANGED <<attempt_starts, uploaded_names, json_storage,
                   requested_name>>
    /\ UNCHANGED notNameVars

\* A node agent (node/api.py is not in the sources; its answers are those
\* tests/unit/node asserts)

\* the requests that start work on a node
WorkRequests == {"snapshot", "upload", "cassandra"}

\* a mutation: a node takes work whether locked or not
agent_is_locked_always(locker) == TRUE

\* the node is locked
agent_is_locked(locker) == locker # NoLocker

\* cassandra.py line 40: assert self.config.cassandra
needs_cassandra_config(request) == request = "cassandra"

\* the answer to a work request: 422 without a valid body, 409 when the node
\* is not locked, an AssertionError for a cassandra sub-operation on a node
\* without cassandra configuration, 200 otherwise
work_status(request, has_body, locker, configured) ==
    IF ~has_body THEN "422"
    ELSE IF ~agent_is_locked(locker) THEN "409"
    ELSE IF needs_cassandra_config(request) /\ ~configured
    THEN "AssertionError"
    ELSE "200"

\* an unlocked node agent
InitAgent ==
    /\ agent_locker = NoLocker
    /\ cassandra_configured \in BOOLEAN
    /\ agent_log = <<>>

\* POST /node/lock?locker=..&ttl=..
AgentLock(locker) ==
    /\ Len(agent_log) < MaxAgentRequests
    /\ agent_locker' = IF agent_is_locked(agent_locker) THEN agent_locker
                       ELSE locker
    /\ agent_log' = Append(agent_log,
            [request |-> "lock", has_body |-> FALSE,
             locked |-> agent_is_locked(agent_locker),
             status |-> IF agent_is_locked(agent_locker) THEN "409"
                        ELSE "200"])
    /\ UNCHANGED cassandra_configured
    /\ UNCHANGED notAgentVars

\* POST /node/unlock?locker=..
AgentUnlock(locker) ==
    /\ Len(agent_log) < MaxAgentRequests
    /\ agent_locker' = IF agent_locker = locker THEN NoLocker
                       ELSE agent_locker
    /\ agent_log' = Append(agent_log,
            [request |-> "unlock", has_body |-> FALSE,
             locked |-> agent_is_locked(agent_locker),
             status |-> IF agent_locker = locker THEN "200" ELSE "403"])
    /\ UNCHANGED cassandra_configured
    /\ UNCHANGED notAgentVars

\* the ttl of the lock runs out
AgentLockExpires ==
    /\ agent_locker # NoLocker
    /\ agent_locker' = NoLocker
    /\ UNCHANGED <<cassandra_configured, agent_log>>
    /\ UNCHANGED notAgentVars

\* POST /node/snapshot, /node/upload or /node/cassandra/{subop}
AgentWork(request, has_body) ==
    /\ Len(agent_log) < MaxAgentRequests
    /\ agent_log' = Append(agent_log,
            [request |-> request, has_body |-> has_body,
             locked |-> agent_locker # NoLocker,
             status |-> work_status(request, has_body, agent_locker,
                                    cassandra_configured)])
    /\ UNCHANGED <<agent_locker, cassandra_configured>>
    /\ UNCHANGED notAgentVars

\* RestoreStep.run_step (plugins/base.py lines 196-235)

\* what request_from_nodes gives for the one node asked: None, or the
\* started operation
RestoreOutcomes == {StartNone, StartResult("http://node-a/status/1")}

\* a mutation: the other nodes are cleared in a partial restore too
skips_node_never(partial) == FALSE

\* line 221: elif self.partial_restore_nodes
skips_node(partial) == partial = "list"

\* lines 211-226: the request for a node, "none" when the loop continues
node_request_op(backup_index, partial) ==
    IF backup_index # NoBackup THEN "download"
    ELSE IF skips_node(partial) THEN "none"
    ELSE "clear"

\* run_step is called; it first calls get_node_to_backup_index
InitRestore ==
    /\ rspc = "run"
    /\ restore_i = 0
    /\ node_requests = <<>>
    /\ restore_start_results = <<>>
    /\ waited = <<>>

\* lines 210-233: one turn of the loop over zip(cluster.nodes,
\* node_to_backup_index)
RestoreNode(outcome) ==
    /\ rspc = "run"
    /\ gpc = "returned"
    /\ restore_i < Min(Len(restore_nodes), Len(node_to_backup_index))
    /\ restore_i' = restore_i + 1
    /\ LET backup_index == node_to_backup_index[restore_i + 1]
           op == node_request_op(backup_index, partial_given)
           start_result == <<outcome>>
       IN IF op = "none"
          THEN UNCHANGED <<rspc, node_requests, restore_start_results>>
          ELSE /\ node_requests' = Append(node_requests,
                    [op |-> op, nodes |-> <<restore_i>>,
                     snapshot_index |-> backup_index,
                     start_result |-> start_result])
               /\ IF Len(start_result) # 1
                  THEN /\ rspc' = "returned"
                       /\ UNCHANGED restore_start_results
                  ELSE /\ restore_start_results' =
                            restore_start_results \o start_result
                       /\ UNCHANGED rspc
    /\ UNCHANGED waited
    /\ UNCHANGED notRestoreVars

\* line 235: wait_successful_results(start_results=start_results, ...)
RestoreWaits ==
    /\ rspc = "run"
    /\ gpc = "returned"
    /\ restore_i = Min(Len(restore_nodes), Len(node_to_backup_index))
    /\ rspc' = "waiting"
    /\ waited' = restore_start_results
    /\ UNCHANGED <<restore_i, node_requests, restore_start_results>>
    /\ UNCHANGED notRestoreVars

vars ==
    <<clusterVars, mutexVars, waitVars, listVars, distVars, placeVars,
      pluginVars>>

\* no operation of a plugin
InitNoSteps ==
    /\ step_results = NoResults
    /\ ctx_history = <<>>
    /\ plugin_op = "backup"
    /\ partial_req = "none"
    /\ steps = <<>>
    /\ step_i = 0
    /\ ppc = "idle"
    /\ attempt = 1
    /\ step_log = <<>>
    /\ pipeline_raised = ""

\* no backup stored and no backup name to choose
InitNoNames ==
    /\ attempt_starts = <<>>
    /\ uploaded_names = <<>>
    /\ json_storage = {}
    /\ requested_name = <<>>
    /\ bpc = "idle"
    /\ name_result = <<>>

\* a node agent that receives no request
InitNoAgent ==
    /\ agent_locker = NoLocker
    /\ cassandra_configured = TRUE
    /\ agent_log = <<>>

\* no RestoreStep runs
InitNoRestore ==
    /\ rspc = "idle"
    /\ restore_i = 0
    /\ node_requests = <<>>
    /\ restore_start_results = <<>>
    /\ waited = <<>>

\* nothing is asked of the plugins
InitNoPlugins ==
    /\ InitNoSteps
    /\ InitNoNames
    /\ InitNoAgent
    /\ InitNoRestore

\* no restore to place
InitNoPlace ==
    /\ partial_given = "none"
    /\ restore_nodes = NodesOf(<<"x">>)
    /\ snapshot_results = SnapshotsOf(<<"x">>)
    /\ req_nodes = <<>>
    /\ gpc = "idle"
    /\ node_to_backup_index = <<>>
    /\ az_pairs = <<>>
    /\ pair_i = 0
    /\ raised = NotRaised

\* no snapshot to distribute
InitNoDist ==
    /\ snapshots = <<[isNone |-> TRUE, hashes |-> <<>>]>>
    /\ hexdigests = {}
    /\ node_indices = <<0>>
    /\ dpc = "idle"
    /\ todo = <<>>
    /\ node_index_datas = <<>>
    /\ build_results = <<>>
    /\ given = <<hexdigests, snapshots, node_indices>>
    /\ uploaded = <<>>

\* a coordinator that receives no GET /list
InitNoList ==
    /\ InitList
    /\ list_ttl = 1

\* a Cluster on which no wait is made
Init ==
    /\ InitCluster
    /\ InitMutex
    /\ InitWait
    /\ maximum_failures = 1
    /\ ~progress_handler
    /\ poll_config.delay_max = 1
    /\ poll_config.duration = 0
    /\ InitNoList
    /\ InitNoDist
    /\ InitNoPlace
    /\ InitNoPlugins

\* lock, relock and unlock calls on a Cluster
NextLock ==
    \/ request_lock
    \/ request_unlock
    \/ request_relock
    \/ NodeRequestDone
    \/ LockCallReturn

SpecLock == Init /\ [][NextLock]_vars

\* calls of request_from_nodes by the steps
NextRequest ==
    \/ request_from_nodes
    \/ NodeRequestDone
    \/ RequestReturn

SpecRequest == Init /\ [][NextRequest]_vars

\* two lockers, each calling request_lock once, on one to MaxMutexNodes nodes
InitMutexSpec ==
    /\ Init
    /\ Len(nodes) \in 1..MaxMutexNodes
    /\ subresult_url.isNone
    /\ stats.isNone

NextMutex ==
    \/ \E locker \in Lockers : LockerRequestLock(locker)
    \/ \E locker \in Lockers : NodeHandlesLock(locker)
    \/ \E locker \in Lockers : LockRequestFails(locker)
    \/ \E locker \in Lockers : LockerReturn(locker)
    \/ NodeLockExpires

SpecMutex == InitMutexSpec /\ [][NextMutex]_vars

\* one wait_successful_results on a Cluster
InitWaitSpec ==
    /\ InitCluster
    /\ Len(nodes) = 1
    /\ subresult_url.isNone
    /\ stats.isNone
    /\ InitMutex
    /\ InitWait
    /\ InitNoList
    /\ InitNoDist
    /\ InitNoPlace
    /\ InitNoPlugins

NextWait ==
    \/ wait_successful_results
    \/ BackoffYields
    \/ BackoffExhausted
    \/ PollNoResponse
    \/ PollResult

SpecWait == InitWaitSpec /\ [][NextWait]_vars

\* the event loop runs whatever is ready: a poll ends with a response or at
\* its timeout, a sleep ends
SpecWaitFair == SpecWait /\ WF_vars(NextWait)

\* GET /list requests, each handled in its own thread
InitListSpec ==
    /\ InitCluster
    /\ Len(nodes) = 1
    /\ subresult_url.isNone
    /\ stats.isNone
    /\ InitMutex
    /\ InitWait
    /\ maximum_failures = 1
    /\ ~progress_handler
    /\ poll_config.delay_max = 1
    /\ poll_config.duration = 0
    /\ InitList
    /\ InitNoDist
    /\ InitNoPlace
    /\ InitNoPlugins

NextList ==
    \/ \E t \in Requests, lreq \in ListRequests : ListRequestArrives(t, lreq)
    \/ \E t \in Requests : AcquireSyncLock(t)
    \/ \E t \in Requests : CheckCache(t)
    \/ \E t \in Requests : ListBackupsReturns(t)
    \/ \E t \in Requests : ListBackupsRaises(t)
    \/ \E t \in Requests : StoreListResponse(t)
    \/ ClockTicks
    \/ BackupStored

SpecList == InitListSpec /\ [][NextList]_vars

\* build_node_index_datas called on the results of the snapshot step
InitDistSpec ==
    /\ InitCluster
    /\ Len(nodes) = 1
    /\ subresult_url.isNone
    /\ stats.isNone
    /\ InitMutex
    /\ InitWait
    /\ maximum_failures = 1
    /\ ~progress_handler
    /\ poll_config.delay_max = 1
    /\ poll_config.duration = 0
    /\ InitNoList
    /\ InitDist
    /\ InitNoPlace
    /\ InitNoPlugins

NextDist ==
    \/ build_node_index_datas
    \/ AssignHash
    \/ ReturnNodeIndexDatas
    \/ UploadStored

SpecDist == InitDistSpec /\ [][NextDist]_vars

\* get_node_to_backup_index called for a restore
InitPlaceSpec ==
    /\ InitCluster
    /\ Len(nodes) = 1
    /\ subresult_url.isNone
    /\ stats.isNone
    /\ InitMutex
    /\ InitWait
    /\ maximum_failures = 1
    /\ ~progress_handler
    /\ poll_config.delay_max = 1
    /\ poll_config.duration = 0
    /\ InitNoList
    /\ InitNoDist
    /\ InitPlace
    /\ InitNoPlugins

NextPlace ==
    \/ get_node_to_backup_index
    \/ \E req_node \in PartialRestoreRequestNodes : PartialRestoreNode(req_node)
    \/ ReturnFromPartial
    \/ PlaceAZPair
    \/ ReturnFromAZs

SpecPlace == InitPlaceSpec /\ [][NextPlace]_vars

\* a coordinator on which no Cluster call, no GET /list and no placement runs
InitNoCore ==
    /\ InitCluster
    /\ Len(nodes) = 1
    /\ subresult_url.isNone
    /\ stats.isNone
    /\ InitMutex
    /\ InitWait
    /\ maximum_failures = 1
    /\ ~progress_handler
    /\ poll_config.delay_max = 1
    /\ poll_config.duration = 0
    /\ InitNoList
    /\ InitNoDist
    /\ InitNoPlace

\* a StepsContext on which set_result and get_result are called
InitContextSpec ==
    /\ InitNoCore
    /\ InitNoRestore
    /\ InitNoAgent
    /\ InitNoSteps
    /\ InitNoNames

NextContext ==
    \/ \E step_class \in SomeStepClasses, result \in StepResultValues :
            set_result(step_class, result)
    \/ \E step_class \in SomeStepClasses : get_result(step_class)

SpecContext == InitContextSpec /\ [][NextContext]_vars

\* a backup or a restore of the ClickHouse plugin
InitPipelineSpec ==
    /\ InitNoCore
    /\ InitNoRestore
    /\ InitNoAgent
    /\ InitSteps
    /\ InitNoNames

NextPipeline ==
    \/ get_backup_steps
    \/ get_restore_steps
    \/ StepStarts
    \/ StepReturns
    \/ StepFails
    \/ StepFailsTransiently

SpecPipeline == InitPipelineSpec /\ [][NextPipeline]_vars

\* backups are stored, then a restore chooses the name of its backup
InitNamesSpec ==
    /\ InitNoCore
    /\ InitNoRestore
    /\ InitNoAgent
    /\ InitNoSteps
    /\ InitNames

NextNames ==
    \/ \E attempt_start \in AttemptStarts : UploadManifestStep(attempt_start)
    \/ BackupNameStep

SpecNames == InitNamesSpec /\ [][NextNames]_vars

\* a node agent handling lock, unlock and work requests
InitAgentSpec ==
    /\ InitNoCore
    /\ InitNoRestore
    /\ InitNoSteps
    /\ InitNoNames
    /\ InitAgent

NextAgent ==
    \/ \E locker \in Lockers : AgentLock(locker)
    \/ \E locker \in Lockers : AgentUnlock(locker)
    \/ AgentLockExpires
    \/ \E request \in WorkRequests, has_body \in BOOLEAN :
            AgentWork(request, has_body)

SpecAgent == InitAgentSpec /\ [][NextAgent]_vars

\* a RestoreStep of a full or of a partial restore
InitRestoreSpec ==
    /\ InitCluster
    /\ Len(nodes) = 1
    /\ subresult_url.isNone
    /\ stats.isNone
    /\ InitMutex
    /\ InitWait
    /\ maximum_failures = 1
    /\ ~progress_handler
    /\ poll_config.delay_max = 1
    /\ poll_config.duration = 0
    /\ InitNoList
    /\ InitNoDist
    /\ partial_given \in {"none", "empty", "list"}
    /\ \E a, b \in AZLists(MaxRestoreNodes) :
            /\ restore_nodes = NodesOf(a)
            /\ snapshot_results = SnapshotsOf(b)
    /\ req_nodes = <<>>
    /\ gpc = "idle"
    /\ node_to_backup_index = <<>>
    /\ az_pairs = <<>>
    /\ pair_i = 0
    /\ raised = NotRaised
    /\ InitNoSteps
    /\ InitNoNames
    /\ InitNoAgent
    /\ InitRestore

NextRestore ==
    \/ NextPlace
    \/ \E outcome \in RestoreOutcomes : RestoreNode(outcome)
    \/ RestoreWaits

SpecRestore == InitRestoreSpec /\ [][NextRestore]_vars

\* ------------------------------------------------------------------------
\* Properties of the lock calls (checked under SpecLock)
\* ------------------------------------------------------------------------

\* the bodies whose JSON value compares equal to the payload a call expects
ExpectedBodies(kind) ==
    {b \in Bodies : PyEq(json_decode(b), expected_result(kind))}

\* a node answered the call in progress with a non-error response carrying
\* the expected payload
NodeOk(n) ==
    /\ answered[n].kind = "resp"
    /\ answered[n].status < 400
    /\ answered[n].body \in ExpectedBodies(call.kind)

\* a node is classified failure: error status, non-JSON body, or a body
\* different from the expected payload
NodeFailure(n) ==
    /\ answered[n].kind = "resp"
    /\ \/ answered[n].status >= 400
       \/ answered[n].body \notin ExpectedBodies(call.kind)

\* a node raised or gave no response
NodeException(n) == answered[n].kind \in {"exc", "none"}

Targets == {call.targets[i] : i \in 1..Len(call.targets)}

LockCallDone == pc = "done" /\ call.kind \in LockCall

\* C1: for a non-empty node list and any per-node outcomes, request_lock
\* returns ok if and only if every node answered with a non-error response
\* whose JSON body equals {locked: true}.
C1_LockOkIffAllLocked ==
    (LockCallDone /\ call.kind = "lock" /\ Len(nodes) > 0)
        => /\ Targets = {nodes[i] : i \in 1..Len(nodes)}
           /\ (rv = "ok") <=> (\A n \in Targets : NodeOk(n))

C1_Witness ==
    /\ LockCallDone /\ call.kind = "lock" /\ Len(nodes) = 3
    /\ rv = "ok"
    /\ \A n \in Targets : answered[n].status = 200

\* C2: in a lock, relock or unlock call the result is failure whenever some
\* node is classified failure, wherever it is in the node order and however
\* many other nodes raised or gave no response; the result is exception only
\* when no node is a failure and at least one raised or gave no response.
C2_FailureSticky ==
    LockCallDone
        => /\ (\E n \in Targets : NodeFailure(n)) => rv = "failure"
           /\ rv = "exception"
                => /\ \A n \in Targets : ~NodeFailure(n)
                   /\ \E n \in Targets : NodeException(n)

C2_Witness ==
    /\ LockCallDone /\ Len(call.targets) = 3
    /\ NodeFailure(call.targets[1])
    /\ answered[call.targets[1]].status = 200
    /\ NodeException(call.targets[2])
    /\ NodeException(call.targets[3])
    /\ rv = "failure"

\* the counter astacus_lock_call_failure of the call in progress went up by k
\* and no other counter changed
CounterUpBy(k) ==
    \A t \in StatTags :
        stats.counters[t] =
            stats0[t] + (IF t = <<call.kind, call.locker>> THEN k ELSE 0)

\* nodes [A, B, C]: A and C return {locked: true}, B returns HTTP 500
C4_Scenario ==
    /\ call.kind = "lock"
    /\ Len(call.targets) = 3
    /\ results[1] = Response(200, BodyLockedTrue)
    /\ results[2].kind = "resp" /\ results[2].status = 500
    /\ results[3] = Response(200, BodyLockedTrue)

\* C4 as stated: a call whose aggregate result is failure increments the
\* counter exactly once, a call whose result is ok or exception does not
\* increment it, and the scenario ends in failure with the counter up by 1.
C4_AsStated ==
    LockCallDone
        => /\ rv = "failure" => CounterUpBy(1)
           /\ rv # "failure" => CounterUpBy(0)
           /\ C4_Scenario => (rv = "failure" /\ CounterUpBy(1))

\* C4 amended: the same on a Cluster that has a stats client; on a Cluster
\* without one (stats is None) nothing is counted.
C4_FailureCountedOnce ==
    LockCallDone
        => /\ (rv = "failure" /\ ~stats.isNone) => CounterUpBy(1)
           /\ (rv # "failure" \/ stats.isNone) => CounterUpBy(0)
           /\ C4_Scenario => rv = "failure"

C4_Witness ==
    /\ LockCallDone /\ C4_Scenario /\ ~stats.isNone
    /\ rv = "failure"
    /\ stats.counters[<<"lock", call.locker>>] = 2
    /\ CounterUpBy(1)

\* ------------------------------------------------------------------------
\* Mutual exclusion of the cluster lock (checked under SpecMutex)
\* ------------------------------------------------------------------------

\* a locker holds the cluster lock: its request_lock returned ok and no lock
\* a node granted to it has expired since
HoldsClusterLock(locker) == lrv[locker] = "ok" /\ ~lost[locker]

\* C3: two lockers with different locker strings issue request_lock against
\* the same nodes in any interleaving, each node granting its lock to at most
\* one locker at a time: at most one of them returns ok while the other's
\* lock is held.
C3_MutualExclusion ==
    \A l1, l2 \in Lockers :
        (l1 # l2 /\ HoldsClusterLock(l1)) => ~HoldsClusterLock(l2)

\* one locker holds the lock, the other's request_lock has returned without it
C3_Witness ==
    \E l1, l2 \in Lockers :
        /\ l1 # l2
        /\ Len(nodes) = 2
        /\ HoldsClusterLock(l1)
        /\ lpc[l2] = "done"
        /\ lrv[l2] = "failure"
        /\ \E i \in 1..Len(nodes) : lresults[l2][i].kind = "exc"

\* ------------------------------------------------------------------------
\* Properties of request_from_nodes (checked under SpecRequest)
\* ------------------------------------------------------------------------

\* C5: request_from_nodes issues exactly one request per target node (all
\* configured nodes when nodes is not given) and returns only after every
\* one of them has completed; the returned sequence has one entry per target
\* node in node order, and a request that raises is reported as the exception
\* value in that node's position instead of being raised.
C5_GatherAll ==
    /\ pc # "raised"
    /\ (pc = "done" /\ call.kind = "request")
        => /\ call.targets = (IF call.nodesArg.isNone THEN nodes
                              ELSE call.nodesArg.list)
           /\ \A n \in NodeIds : sent[n] = (IF n \in Targets THEN 1 ELSE 0)
           /\ Len(returned) = Len(call.targets)
           /\ \A i \in 1..Len(returned) :
                /\ returned[i].kind # "pending"
                /\ returned[i] = answered[call.targets[i]]

C5_Witness ==
    /\ pc = "done" /\ call.kind = "request"
    /\ call.nodesArg.isNone
    /\ Len(returned) = 3
    /\ returned[1].kind = "resp"
    /\ returned[2].kind = "exc"
    /\ returned[3].kind = "none"

\* C6: request_from_nodes sets the request's result_url to the cluster's
\* subresult_url exactly when a request object is supplied and subresult_url
\* is configured; when subresult_url is not configured the request's
\* result_url is left unchanged, and when no request object is supplied no
\* request body is sent.
C6_ResultUrl ==
    (pc # "idle" /\ call.kind = "request")
        => /\ (~call.reqArg.isNone /\ ~subresult_url.isNone)
                => (req.result_url = subresult_url.url /\ data = req_json(req))
           /\ (~call.reqArg.isNone /\ subresult_url.isNone)
                => (req = call.reqArg /\ data = req_json(call.reqArg))
           /\ call.reqArg.isNone => (req.isNone /\ data.isNone)

C6_Witness ==
    /\ pc = "done" /\ call.kind = "request"
    /\ call.reqArg = NodeRequest("http://stale")
    /\ ~subresult_url.isNone
    /\ req.result_url = subresult_url.url
    /\ data.result_url = subresult_url.url

\* ------------------------------------------------------------------------
\* Properties of wait_successful_results (checked under SpecWait)
\* ------------------------------------------------------------------------

\* a start result is missing, empty or an exception
BadStartResult(sr) == sr \in {StartNone, StartEmpty, StartExc}

\* C7: wait_successful_results fails with WaitResultError before polling any
\* status url when any start result is missing, empty or an exception, or
\* when required_successes is given and differs from the number of start
\* results.
C7_StartResultsChecked ==
    wpc # "idle"
        => /\ (\E i \in 1..Len(start_results) : BadStartResult(start_results[i]))
                => (wpc = "error" /\ werror = "incorrect start result"
                    /\ ~polled /\ passes = 0)
           /\ (~required_successes.isNone
               /\ required_successes.n # Len(start_results))
                => (wpc = "error"
                    /\ werror \in {"incorrect start result",
                                   "incorrect number of results"}
                    /\ ~polled /\ passes = 0)

C7_Witness ==
    /\ wpc = "error"
    /\ Len(start_results) = 2
    /\ start_results[1].kind = "started"
    /\ start_results[2] = StartExc
    /\ required_successes = Count(2)
    /\ ~polled

\* C8: each slot has its own failure counter: the wait fails with 'too many
\* failures' exactly when some slot has received maximum_failures consecutive
\* polls with no response; a successful poll of a slot resets that slot's
\* count, and polls without response of different slots are not added up.
C8_TooManyFailures ==
    wpc \in {"backoff", "poll", "returned"} \/ (wpc = "error" /\ polled)
        => /\ (werror = "too many failures")
                <=> (\E i \in 1..Len(nil_run) : nil_run[i] = maximum_failures)
           /\ \A i \in 1..Len(nil_run) : nil_run[i] <= maximum_failures

C8_Witness ==
    /\ wpc = "error" /\ werror = "too many failures"
    /\ maximum_failures = 2
    /\ nil_run = <<1, 2>>
    /\ ~wresults[1].isNone

\* C9: as soon as a poll of any slot returns a result whose
\* progress.finished_failed is true, the wait fails with WaitResultError
\* without polling any further slot or starting another pass, even if other
\* slots are still running or already final.
C9_FailsOnNodeFailure ==
    failed_seen
        => /\ wpc = "error"
           /\ werror = "WaitResultError()"
           /\ wresults[wi].finished_failed
           /\ \A j \in 1..Len(wresults) : j # wi => ~wresults[j].finished_failed

C9_Witness ==
    /\ failed_seen
    /\ wpc = "error"
    /\ Len(urls) = 2
    /\ wi = 1
    /\ passes = 2
    /\ ~wresults[2].isNone /\ ~wresults[2].final

\* C10: wait_successful_results returns normally only when every slot holds a
\* result whose progress.final is true; the returned list has one parsed
\* result per start result, in the order of the start results, and each entry
\* is the last successful poll of that slot's status url.
C10_ReturnsFinalResults ==
    wpc = "returned"
        => /\ Len(wresults) = Len(start_results)
           /\ \A i \in 1..Len(wresults) :
                /\ ~wresults[i].isNone
                /\ wresults[i].final
                /\ wresults[i].url = start_results[i].status_url
                /\ wresults[i] = last_poll[i]

C10_Witness ==
    /\ wpc = "returned"
    /\ Len(wresults) = 2
    /\ wresults[1].url # wresults[2].url
    /\ passes = 3
    /\ handler_calls > 2

\* the wait is over: it returned its results or raised WaitResultError
WaitOver == wpc \in {"returned", "error"}

\* slot i has answered every poll so far, at least one, with a result that
\* is neither final nor failed
KeepsRunning(i) ==
    /\ always_running[i]
    /\ ~wresults[i].isNone
    /\ ~wresults[i].finished_failed

StoredProgress == {<<j, wresults[j]>> : j \in {k \in 1..Len(wresults) : ~wresults[k].isNone}}

\* C13 as stated: the progress handler is invoked once after each polling
\* pass over the slots.
C13_AsStated ==
    progress_handler /\ wpc \in {"backoff", "returned"}
        => handler_calls = passes

\* C13: a progress handler that is set is invoked once after each poll that
\* gave a result, before the next slot is polled, with the merge of the
\* progress of every slot that holds a result then; no handler is invoked
\* when none is set.
C13_HandlerPerResult ==
    /\ handler_calls = IF progress_handler THEN ok_polls ELSE 0
    /\ handler_calls > 0 => handler_arg = StoredProgress

C13_Witness ==
    /\ progress_handler
    /\ passes = 1
    /\ wpc = "backoff"
    /\ handler_calls = 2
    /\ Cardinality(handler_arg) = 2

\* the requests that are executing list_backups (line 91)
Building == {t \in Requests : lpc_list[t] = "build"}

\* the requests whose handler has ended
Ended == {t \in Requests : lpc_list[t] = "done"}

\* the requests that were rejected with 429
Rejected == {t \in Ended : http_response[t].status_code = 429}

\* request t is at lines 83-90, about to leave the first mutex section
Checks(t) == lpc_list[t] = "check" /\ lpc_list'[t] # "check"

\* the cache holds an entry younger than list_ttl
YoungEntry ==
    /\ ~cached_list_response.isNone
    /\ monotonic - cached_list_response.timestamp < list_ttl

\* C14: at most one GET /list request is executing list_backups at any
\* time, however many requests are handled side by side.
C14_SingleFlight == Cardinality(Building) <= 1

C14_Witness ==
    /\ lpc_list[1] = "build"
    /\ http_response[2] = Busy
    /\ lpc_list[3] = "enter"
    /\ list_req[1] = list_req[2]

\* C15 as stated: of the requests handled while one build runs, at most one
\* is rejected with 429.
C15_AsStated ==
    Building # {} /\ list_calls = 0 => Cardinality(Rejected) <= 1

\* C15: only a request that saw cached_list_running set is rejected with 429,
\* and every request that saw it set and no cache entry is: any number of
\* them during one build. Of two requests with the same ListRequest that
\* both found the cache empty, the one that found the flag clear gets 200
\* with the response it computed (500 if list_backups raised) and the one
\* that found it set gets 429.
C15_BusyWhileBuilding ==
    /\ \A t \in Rejected : seen_running[t] /\ http_response[t] = Busy
    /\ \A t \in Ended :
        seen_running[t] /\ seen_cache[t].isNone => t \in Rejected
    /\ \A t, u \in Ended :
        (/\ list_req[t] = list_req[u]
         /\ seen_cache[t].isNone /\ seen_cache[u].isNone
         /\ ~seen_running[t] /\ seen_running[u])
        => /\ http_response[u] = Busy
           /\ \/ http_response[t] = Ok(list_response[t])
                 /\ \E n \in 0..MaxBackups :
                        list_response[t] = list_backups(list_req[t], n)
              \/ http_response[t] = ServerError /\ list_raised > 0

C15_Witness ==
    /\ Ended = Requests
    /\ http_response[1] = Ok(list_backups("x", 0))
    /\ http_response[2] = Busy
    /\ http_response[3] = Busy
    /\ list_req[2] = "x"
    /\ list_calls = 1

\* C16: a request whose ListRequest equals the cached one, taking the mutex
\* while the cached entry is younger than list_ttl, returns the stored
\* response; list_backups is not called and neither the cache entry nor
\* cached_list_running changes.
C16_AnsweredFromCache ==
    [][\A t \in Requests :
        Checks(t) /\ YoungEntry
                  /\ cached_list_response.list_request = list_req[t]
        => /\ lpc_list'[t] = "done"
           /\ http_response'[t] = Ok(cached_list_response.list_response)
           /\ UNCHANGED <<cached_list_response, cached_list_running,
                          list_calls, list_response>>]_vars

C16_Witness ==
    /\ http_response[1] = Ok(list_backups("x", 0))
    /\ http_response[3] = http_response[1]
    /\ list_response[1] = list_backups("x", 0)
    /\ list_response[3] = <<>>
    /\ ~seen_cache[3].isNone
    /\ seen_running[3]
    /\ storage = 1
    /\ list_calls = 1

\* C17 as stated: a request whose ListRequest differs from the cached one is
\* not answered from the cache; it goes on to build, or it is rejected with
\* 429 and some other request is then between setting and clearing the flag.
C17_AsStated ==
    [][\A t \in Requests :
        Checks(t) /\ ~cached_list_response.isNone
                  /\ cached_list_response.list_request # list_req[t]
        => \/ lpc_list'[t] = "build"
           \/ /\ http_response'[t] = Busy
              /\ \E u \in Requests \ {t} :
                    lpc_list[u] \in {"build", "built", "store"}]_vars

\* C18: the request that executes list_backups does not hold the mutex, and
\* whoever holds it is inside one of the two short sections; a request that
\* takes the mutex while another is building ends there and then: with the
\* cached response when the entry is young and for the same request, with
\* 429 otherwise.
C18_NeverWaits ==
    /\ [](\A t \in Building : sync_lock # t)
    /\ [](sync_lock # 0 => lpc_list[sync_lock] \in {"check", "store"})
    /\ [][\A t \in Requests :
            Checks(t) /\ Building \ {t} # {}
            => /\ lpc_list'[t] = "done"
               /\ http_response'[t] =
                    IF YoungEntry
                       /\ cached_list_response.list_request = list_req[t]
                    THEN Ok(cached_list_response.list_response)
                    ELSE Busy]_vars

C18_Witness ==
    /\ lpc_list[1] = "build"
    /\ sync_lock = 0
    /\ lpc_list[2] = "done"
    /\ seen_running[2]
    /\ ~seen_cache[2].isNone
    /\ http_response[2] = Ok(seen_cache[2].list_response)
    /\ lpc_list[3] = "done"
    /\ ~seen_running[3]
    /\ http_response[3] = http_response[2]

\* the hexdigests that occur in the snapshots given to build_node_index_datas
SnapshotDigests ==
    UNION {{hashes_or_empty(given[2][i])[j].hexdigest :
                j \in 1..Len(hashes_or_empty(given[2][i]))} :
            i \in 1..Len(given[2])}

\* the places of hexdigest d in the lists of a returned plan
Places(plan, d) ==
    UNION {{<<i, j>> : j \in {k \in 1..Len(plan[i].sshashes) :
                                plan[i].sshashes[k].hexdigest = d}} :
            i \in 1..Len(plan)}

\* C19: in every list build_node_index_datas returns, a hexdigest that occurs
\* in some node's snapshot and is not among the stored hexdigests is at
\* exactly one place, and a stored hexdigest or one that is in no snapshot is
\* at none.
C19_Dedup ==
    \A k \in 1..Len(build_results) :
        \A d \in Hexdigests \cup SnapshotDigests \cup given[1] :
            Cardinality(Places(build_results[k], d)) =
                IF d \in SnapshotDigests \ given[1] THEN 1 ELSE 0

C19_Witness ==
    /\ Len(build_results) = 1
    /\ given[1] = {2}
    /\ Len(snapshots) = 2
    /\ hashes_or_empty(snapshots[1]) =
            <<[hexdigest |-> 1, size |-> 1], [hexdigest |-> 2, size |-> 2]>>
    /\ hashes_or_empty(snapshots[2]) =
            <<[hexdigest |-> 1, size |-> 2], [hexdigest |-> 1, size |-> 2]>>
    /\ Len(build_results[1]) = 1

PlanLists(plan) ==
    [i \in 1..Len(plan) |->
        <<plan[i].node_index,
          [j \in 1..Len(plan[i].sshashes) |-> plan[i].sshashes[j].hexdigest]>>]

\* the call was made on the arguments of the scenario and has returned
Ran(scenario) ==
    /\ given[1] = scenario.hexdigests
    /\ given[2] = scenario.snapshots
    /\ build_results # <<>>

\* C21 as stated: on ScenarioShared node 0 is given [h2] and node 1 [h3, h1].
C21_AsStated ==
    Ran(ScenarioShared)
        => PlanLists(build_results[1]) = <<<<0, <<2>>>>, <<1, <<3, 1>>>>>>

\* C21: on ScenarioShared (nothing stored, node 0 holding h1 of size 10 and
\* h2 of size 5, node 1 holding h1 and h3 of size 7) node 0 is given
\* [h2, h1] and node 1 is given [h3]: h3 and h2 are placed first, and h1 then
\* goes to node 0, whose total of 5 is the smaller one.
C21_SharedGoesToLeastLoaded ==
    Ran(ScenarioShared)
        => /\ PlanLists(build_results[1]) = <<<<0, <<2, 1>>>>, <<1, <<3>>>>>>
           /\ build_results[1][1].total_size = 15
           /\ build_results[1][2].total_size = 7

C21_Witness ==
    /\ Ran(ScenarioShared)
    /\ Len(build_results) = 2
    /\ uploaded = <<>>

\* C22: the returned list holds the nodes that were given a hash and no
\* other, in ascending position; on ScenarioStored (h1 stored, node 0 holding
\* h1 and h2, node 1 holding h1) it is the one entry node 0 with [h2].
C22_OmitsIdleNodes ==
    /\ \A k \in 1..Len(build_results) :
        LET plan == build_results[k]
        IN /\ \A i \in 1..Len(plan) : plan[i].sshashes # <<>>
           /\ \A i, j \in 1..Len(plan) :
                i < j => plan[i].node_index < plan[j].node_index
    /\ dpc = "idle" /\ build_results # <<>>
        => {build_results[Len(build_results)][i] :
                i \in 1..Len(build_results[Len(build_results)])}
            = {node_index_datas[i] :
                i \in {j \in 1..Len(node_index_datas) :
                        Len(node_index_datas[j].sshashes) > 0}}
    /\ Ran(ScenarioStored)
        => PlanLists(build_results[1]) = <<<<0, <<2>>>>>>

C22_Witness ==
    /\ Ran(ScenarioStored)
    /\ Len(node_index_datas) = 2
    /\ node_index_datas[2].sshashes = <<>>
    /\ Len(build_results[1]) = 1

\* the nodes whose snapshot lists hexdigest d
NodesHolding(d) ==
    {i \in 1..Len(snapshots) :
        \E j \in 1..Len(hashes_or_empty(snapshots[i])) :
            hashes_or_empty(snapshots[i])[j].hexdigest = d}

\* no snapshot lists a hexdigest twice (a snapshot's hashes are a set)
NoRepeats ==
    \A i \in 1..Len(snapshots) :
        \A j, k \in 1..Len(hashes_or_empty(snapshots[i])) :
            j # k => hashes_or_empty(snapshots[i])[j].hexdigest
                        # hashes_or_empty(snapshots[i])[k].hexdigest

\* the key the claim orders the hashes by
HoldersAndSize(item) ==
    <<Cardinality(NodesHolding(item.sshash.hexdigest)), -item.sshash.size>>

RECURSIVE SumOfSizes(_)
SumOfSizes(sshashes) ==
    IF sshashes = <<>> THEN 0
    ELSE Head(sshashes).size + SumOfSizes(Tail(sshashes))

\* C23: the hashes are handled in ascending order of (number of nodes
\* holding the hash, minus its size); a hash that is not stored goes to the
\* node holding it whose total_size is smallest, the lowest node index among
\* equals, and a stored one to none; each total_size is the sum of the sizes
\* of the node's hashes.
C23_LeastLoadedHolder ==
    /\ [](NoRepeats =>
            \A k \in 1..(Len(todo) - 1) :
                ~tuple_less(HoldersAndSize(todo[k + 1]), HoldersAndSize(todo[k])))
    /\ [](\A i \in 1..Len(node_index_datas) :
            node_index_datas[i].total_size
                = SumOfSizes(node_index_datas[i].sshashes))
    /\ [][dpc = "todo" /\ todo # <<>> =>
            LET h == Head(todo).sshash
                holders == NodesHolding(h.hexdigest)
            IN IF h.hexdigest \in hexdigests
               THEN node_index_datas' = node_index_datas
               ELSE \E i \in holders :
                    /\ node_index_datas' =
                        [node_index_datas EXCEPT
                            ![i] = [@ EXCEPT !.sshashes = Append(@, h),
                                             !.total_size = @ + h.size]]
                    /\ \A j \in holders \ {i} :
                        \/ node_index_datas[i].total_size
                                < node_index_datas[j].total_size
                        \/ /\ node_index_datas[i].total_size
                                = node_index_datas[j].total_size
                           /\ i < j]_vars

C23_Witness ==
    /\ dpc = "todo"
    /\ todo = <<>>
    /\ hexdigests = {}
    /\ Len(snapshots) = 2
    /\ snapshots[1] = snapshots[2]
    /\ snapshots[1].hashes =
            <<[hexdigest |-> 2, size |-> 1], [hexdigest |-> 1, size |-> 2]>>
    /\ node_index_datas[1].sshashes = <<[hexdigest |-> 1, size |-> 2]>>
    /\ node_index_datas[2].sshashes = <<[hexdigest |-> 2, size |-> 1]>>

\* C24: once a plan has been uploaded, so that the stored hexdigests hold
\* every hexdigest it assigned, build_node_index_datas on the same snapshots
\* returns the empty list.
C24_SecondRunEmpty ==
    uploaded # <<>>
        => /\ PlanDigests(uploaded[Len(uploaded)]) \subseteq hexdigests
           /\ \A k \in 1..Len(build_results) : build_results[k] = <<>>

C24_Witness ==
    /\ Len(uploaded) = 1
    /\ Len(uploaded[1]) = 2
    /\ Len(build_results) = 1
    /\ snapshots = given[2]
    /\ Cardinality(hexdigests) = 2

\* the request lists no partial_restore_nodes
NoPartial == partial_given \in {"none", "empty"}

\* get_node_to_backup_index has been called
Called == gpc # "idle"

\* the availability zones of the nodes, or of the snapshots
DistinctAZs(records) == {records[i].az : i \in 1..Len(records)}

\* the nodes, or the snapshots, of an availability zone
Population(records, az) ==
    Cardinality({i \in 1..Len(records) : records[i].az = az})

\* C25: without partial_restore_nodes and with fewer coordinator nodes than
\* snapshot results, get_node_to_backup_index raises
\* InsufficientNodesException at its first check and builds no mapping.
C25_TooFewNodes ==
    NoPartial /\ Called /\ Len(restore_nodes) < Len(snapshot_results)
        => /\ gpc = "raised"
           /\ raised = Raised("InsufficientNodesException", "nodes")
           /\ node_to_backup_index = <<>>

C25_Witness ==
    /\ partial_given = "empty"
    /\ gpc = "raised"
    /\ Len(restore_nodes) = 2
    /\ Len(snapshot_results) = 3
    /\ DistinctAZs(snapshot_results) = {"x", "y"}
    /\ DistinctAZs(restore_nodes) = {"x"}

\* C26: without partial_restore_nodes and with at least as many nodes as
\* snapshots, get_node_to_backup_index raises InsufficientAZsException when
\* the snapshots span more availability zones than the nodes.
C26_TooFewAZs ==
    (/\ NoPartial /\ Called
     /\ Len(restore_nodes) >= Len(snapshot_results)
     /\ Cardinality(DistinctAZs(snapshot_results))
            > Cardinality(DistinctAZs(restore_nodes)))
        => /\ gpc = "raised"
           /\ raised = Raised("InsufficientAZsException", "azs")
           /\ node_to_backup_index = <<>>

C26_Witness ==
    /\ partial_given = "none"
    /\ gpc = "raised"
    /\ Len(restore_nodes) = 3
    /\ Len(snapshot_results) = 2
    /\ DistinctAZs(snapshot_results) = {"x", "y"}
    /\ DistinctAZs(restore_nodes) = {"y"}

\* get_node_to_backup_index_from_azs was called
PlacedByAZs == az_pairs # <<>>

\* C27: the pairs are the backup's availability zones by descending number
\* of snapshots, each with the coordinator zone of the same rank by number
\* of nodes; get_node_to_backup_index_from_azs raises
\* InsufficientNodesException if and only if some pair has more snapshots
\* than nodes.
C27_PairsByPopulation ==
    PlacedByAZs
        => /\ {az_pairs[k].backup_az : k \in 1..Len(az_pairs)}
                = DistinctAZs(snapshot_results)
           /\ \A k \in 1..Len(az_pairs) :
                /\ az_pairs[k].backup_n
                    = Population(snapshot_results, az_pairs[k].backup_az)
                /\ az_pairs[k].node_n
                    = Population(restore_nodes, az_pairs[k].node_az)
                /\ \A az \in DistinctAZs(restore_nodes)
                            \ {az_pairs[j].node_az : j \in 1..Len(az_pairs)} :
                        Population(restore_nodes, az) <= az_pairs[k].node_n
           /\ \A j, k \in 1..Len(az_pairs) :
                j < k => /\ az_pairs[j].backup_az # az_pairs[k].backup_az
                         /\ az_pairs[j].node_az # az_pairs[k].node_az
                         /\ az_pairs[j].backup_n >= az_pairs[k].backup_n
                         /\ az_pairs[j].node_n >= az_pairs[k].node_n
           /\ gpc \in {"returned", "raised"}
                => /\ gpc = "raised"
                        <=> \E k \in 1..Len(az_pairs) :
                                az_pairs[k].backup_n > az_pairs[k].node_n
                   /\ gpc = "raised"
                        => raised = Raised("InsufficientNodesException", "az_pair")

C27_Witness ==
    /\ gpc = "raised"
    /\ pair_i = 2
    /\ az_pairs[1].backup_az = "x"
    /\ az_pairs[1].node_az = "y"
    /\ az_pairs[1].node_n = 3
    /\ az_pairs[2].backup_n = 2
    /\ az_pairs[2].node_n = 1
    /\ restore_nodes[1].az = "x"

\* the one-to-one maps of the availability zones
AZPermutations == {f \in [AZs -> AZs] : \A a, b \in AZs : a # b => f[a] # f[b]}

\* the zones of the backup can be matched with zones of the coordinator of
\* the same size (as they are when each zone has as many nodes as snapshots)
MatchingAZs ==
    \E f \in AZPermutations :
        \A az \in AZs :
            Population(snapshot_results, az) = Population(restore_nodes, f[az])

\* C28: without partial_restore_nodes, with as many nodes as snapshots and
\* matching availability zones, get_node_to_backup_index does not raise and
\* returns a bijection: every node has a snapshot index and every index of
\* a snapshot is given to one node.
C28_Bijection ==
    (/\ NoPartial /\ Called
     /\ Len(restore_nodes) = Len(snapshot_results)
     /\ MatchingAZs)
        => /\ gpc # "raised"
           /\ gpc = "returned"
                => /\ Len(node_to_backup_index) = Len(restore_nodes)
                   /\ {node_to_backup_index[i] : i \in 1..Len(restore_nodes)}
                        = 0..(Len(snapshot_results) - 1)

C28_Witness ==
    /\ NoPartial
    /\ gpc = "returned"
    /\ azs_of(restore_nodes) = <<"x", "y", "x", "y">>
    /\ azs_of(snapshot_results) = <<"y", "y", "x", "x">>
    /\ MatchingAZs

\* C29: with coordinator AZs [x, x, y] and backup AZs [x, y, y] the
\* placement succeeds: node 0 restores snapshot 1, node 1 snapshot 2 and
\* node 2 snapshot 0.
C29_Scenario ==
    (/\ NoPartial /\ Called
     /\ azs_of(restore_nodes) = <<"x", "x", "y">>
     /\ azs_of(snapshot_results) = <<"x", "y", "y">>)
        => /\ gpc # "raised"
           /\ gpc = "returned" => node_to_backup_index = <<1, 2, 0>>

C29_Witness ==
    /\ partial_given = "none"
    /\ gpc = "returned"
    /\ azs_of(restore_nodes) = <<"x", "x", "y">>
    /\ azs_of(snapshot_results) = <<"x", "y", "y">>
    /\ pair_i = 2

\* the node an entry names, counted from 0 (-1: none)
NamedNode(e) ==
    IF e.node_by = "node_index"
    THEN (IF e.node \in 0..(Len(restore_nodes) - 1) THEN e.node ELSE -1)
    ELSE (IF \E i \in 1..Len(restore_nodes) : restore_nodes[i].url = e.node
          THEN (CHOOSE i \in 1..Len(restore_nodes) :
                    restore_nodes[i].url = e.node) - 1
          ELSE -1)

\* the snapshot an entry names, counted from 0 (-1: none)
NamedBackup(e) ==
    IF e.backup_by = "backup_index"
    THEN (IF e.backup \in 0..(Len(snapshot_results) - 1) THEN e.backup ELSE -1)
    ELSE (IF \E i \in 1..Len(snapshot_results) :
                snapshot_results[i].hostname = e.backup
          THEN (CHOOSE i \in 1..Len(snapshot_results) :
                    snapshot_results[i].hostname = e.backup) - 1
          ELSE -1)

ValidEntry(e) == NamedNode(e) >= 0 /\ NamedBackup(e) >= 0

\* the entries read so far that name node n
EntriesFor(n) == {k \in 1..Len(req_nodes) : NamedNode(req_nodes[k]) = n}

\* C30: with partial_restore_nodes, get_node_to_backup_index makes no check
\* of the node count or of the availability zones; it raises
\* NotFoundException at the first entry naming no node or no snapshot, and
\* otherwise maps each listed node to the snapshot of its (last) entry and
\* every other node to None.
C30_PartialRestore ==
    partial_given = "list"
        => /\ gpc # "azs" /\ az_pairs = <<>>
           /\ raised.exception \in {"", "NotFoundException"}
           /\ \A k \in 1..(Len(req_nodes) - 1) : ValidEntry(req_nodes[k])
           /\ gpc = "raised"
                <=> req_nodes # <<>> /\ ~ValidEntry(req_nodes[Len(req_nodes)])
           /\ gpc \in {"partial", "returned"}
                => \A i \in 1..Len(restore_nodes) :
                    node_to_backup_index[i] =
                        IF EntriesFor(i - 1) = {} THEN NoBackup
                        ELSE NamedBackup(req_nodes[
                                CHOOSE k \in EntriesFor(i - 1) :
                                    \A j \in EntriesFor(i - 1) : j <= k])

C30_Witness ==
    /\ gpc = "returned"
    /\ azs_of(restore_nodes) = <<"x", "x">>
    /\ azs_of(snapshot_results) = <<"x", "y">>
    /\ Len(req_nodes) = 2
    /\ req_nodes[1].node_by = "node_url"
    /\ req_nodes[2].backup_by = "backup_hostname"
    /\ node_to_backup_index = <<NoBackup, 1>>

\* the requests between setting cached_list_running (line 90) and clearing
\* it (line 94)
BetweenSetAndClear ==
    {t \in Requests : lpc_list[t] \in {"build", "built", "store"}}

\* C36 as stated: cached_list_running is set only while some request is
\* between setting it and clearing it, whatever list_backups did.
C36_AsStated == cached_list_running => BetweenSetAndClear # {}

\* the nodes that were given snapshot index b
NodesRestoring(b) ==
    {i \in 1..Len(node_to_backup_index) : node_to_backup_index[i] = b}

\* C37: whenever the placement by availability zones returns, every snapshot
\* index is given to exactly one node, no node has two indexes (the result
\* has one entry per node) and every other node is mapped to None.
C37_EachSnapshotOnce ==
    NoPartial /\ gpc = "returned"
        => /\ Len(node_to_backup_index) = Len(restore_nodes)
           /\ \A b \in 0..(Len(snapshot_results) - 1) :
                Cardinality(NodesRestoring(b)) = 1
           /\ \A i \in 1..Len(restore_nodes) :
                node_to_backup_index[i]
                    \in {NoBackup} \cup 0..(Len(snapshot_results) - 1)

C37_Witness ==
    /\ NoPartial
    /\ gpc = "returned"
    /\ azs_of(restore_nodes) = <<"x", "y", "y">>
    /\ azs_of(snapshot_results) = <<"x">>
    /\ node_to_backup_index = <<NoBackup, 0, NoBackup>>

\* ------------------------------------------------------------------------
\* Properties of StepsContext and of the ClickHouse steps (checked under
\* SpecContext and SpecPipeline)
\* ------------------------------------------------------------------------

\* the set_result calls for a step class among the calls made so far
SetCalls(step_class) ==
    {k \in 1..Len(ctx_history) :
        /\ ctx_history[k].method = "set_result"
        /\ ctx_history[k].step_class = step_class}

\* the result given to the first set_result call for a step class
FirstSetResult(step_class) ==
    ctx_history[CHOOSE k \in SetCalls(step_class) :
                    \A j \in SetCalls(step_class) : k <= j].result[1]

\* C31: over any sequence of set_result and get_result calls, the first
\* set_result for a step class stores its result, every later set_result
\* for that class raises RuntimeError and changes nothing in the context,
\* and get_result returns the result of the first set_result.
C31_SetAtMostOnce ==
    /\ [](\A k \in 1..Len(ctx_history) :
            LET made == ctx_history[k]
            IN IF made.method = "set_result"
               THEN made.raised = "RuntimeError"
                        <=> \E j \in SetCalls(made.step_class) : j < k
               ELSE IF \E j \in SetCalls(made.step_class) : j < k
               THEN /\ made.raised = ""
                    /\ made.returned = <<FirstSetResult(made.step_class)>>
               ELSE made.raised = "KeyError")
    /\ [](/\ DOMAIN step_results
                = {step_class \in StepClasses : SetCalls(step_class) # {}}
          /\ \A step_class \in DOMAIN step_results :
                step_results[step_class] = FirstSetResult(step_class))
    /\ [][(/\ ctx_history' # ctx_history
           /\ ctx_history'[Len(ctx_history')].raised # "")
            => step_results' = step_results]_vars

C31_Witness ==
    /\ ppc = "idle"
    /\ Len(ctx_history) = 4
    /\ ctx_history[1].method = "set_result"
    /\ ctx_history[1].result = <<1>>
    /\ ctx_history[2].method = "set_result"
    /\ ctx_history[2].step_class = ctx_history[1].step_class
    /\ ctx_history[2].result = <<2>>
    /\ ctx_history[2].raised = "RuntimeError"
    /\ ctx_history[3].method = "get_result"
    /\ ctx_history[3].step_class = ctx_history[1].step_class
    /\ ctx_history[3].returned = <<1>>
    /\ ctx_history[4].method = "set_result"
    /\ ctx_history[4].raised = ""
    /\ Cardinality(DOMAIN step_results) = 2

\* C33: a ClickHouse restore with partial_restore_nodes gets
\* NotImplementedError from get_restore_steps: no step list is returned, no
\* step is started and nothing is stored in a context.
C33_PartialUnsupported ==
    plugin_op = "restore" /\ partial_req = "list" /\ ppc # "idle"
        => /\ ppc = "unsupported"
           /\ pipeline_raised = "NotImplementedError"
           /\ steps = <<>>
           /\ step_log = <<>>
           /\ step_results = NoResults

C33_Witness ==
    /\ plugin_op = "restore"
    /\ partial_req = "list"
    /\ ppc = "unsupported"
    /\ pipeline_raised = "NotImplementedError"

\* the events of the attempt that is running: those after the last raise
\* that started a new attempt
RECURSIVE AttemptLog(_)
AttemptLog(log) ==
    IF log = <<>> THEN <<>>
    ELSE LET before == AttemptLog(SubSeq(log, 1, Len(log) - 1))
             last == log[Len(log)]
         IN IF last[2] = "started" /\ before # <<>>
                    /\ before[Len(before)][2] = "raised"
            THEN <<last>>
            ELSE Append(before, last)

\* in the running attempt, every start of step class later comes after the
\* completion of step class earlier
CompletedBefore(earlier, later) ==
    LET log == AttemptLog(step_log)
    IN \A k \in 1..Len(log) :
        log[k] = <<later, "started">>
            => \E j \in 1..(k - 1) : log[j] = <<earlier, "completed">>

\* the runner is over
PipelineOver == ppc \in {"fatal", "failed", "done", "unsupported"}

\* C39: in a backup the tables are frozen before the snapshot starts, they
\* are unfrozen only after the upload of the blocks completed, and the
\* manifest is uploaded only after every other step completed, by the last
\* step of the list; in a restore the access entities are restored only
\* after the download, the attachment of the parts and the sync of the
\* replicas completed; no step runs after a step raised and ended the
\* operation.
C39_StepOrder ==
    /\ [](plugin_op = "backup"
            => /\ CompletedBefore("FreezeTablesStep", "SnapshotStep")
               /\ CompletedBefore("UploadBlocksStep", "UnfreezeTablesStep")
               /\ \A k \in 1..(Len(ClickHouseBackupSteps) - 1) :
                    CompletedBefore(ClickHouseBackupSteps[k],
                                    "UploadManifestStep")
               /\ steps # <<>> => steps[Len(steps)] = "UploadManifestStep")
    /\ [](plugin_op = "restore"
            => /\ CompletedBefore("RestoreStep", "RestoreAccessEntitiesStep")
               /\ CompletedBefore("AttachMergeTreePartsStep",
                                  "RestoreAccessEntitiesStep")
               /\ CompletedBefore("SyncReplicasStep",
                                  "RestoreAccessEntitiesStep"))
    /\ [][PipelineOver => UNCHANGED <<step_log, step_results>>]_vars

C39_Witness ==
    /\ plugin_op = "backup"
    /\ ppc = "failed"
    /\ attempt = 2
    /\ step_i = 9
    /\ step_log[Len(step_log)] = <<"UploadBlocksStep", "raised">>
    /\ "FreezeTablesStep" \in DOMAIN step_results
    /\ "UnfreezeTablesStep" \notin DOMAIN step_results

\* the places of a step class in a list of steps
PlacesOf(step_list, step_class) ==
    {k \in 1..Len(step_list) : step_list[k] = step_class}

\* every step class occurs once in the list, and after the classes it reads
WellOrdered(step_list) ==
    \A k \in 1..Len(step_list) :
        /\ PlacesOf(step_list, step_list[k]) = {k}
        /\ \A r \in 1..Len(reads(step_list[k])) :
            \E j \in 1..(k - 1) : step_list[j] = reads(step_list[k])[r]

\* C40: in both step lists of the ClickHouse plugin every step class occurs
\* once and after the classes whose results it reads; run by a runner that
\* stores each result after its step, no get_result raises KeyError and no
\* set_result raises RuntimeError.
C40_ReadsAfterWrites ==
    /\ WellOrdered(ClickHouseBackupSteps)
    /\ WellOrdered(ClickHouseRestoreSteps)
    /\ \A k \in 1..Len(ctx_history) : ctx_history[k].raised = ""
    /\ pipeline_raised \notin {"KeyError", "RuntimeError"}
    /\ ppc # "fatal"

C40_Witness ==
    /\ plugin_op = "restore"
    /\ partial_req = "empty"
    /\ ppc = "done"
    /\ attempt = 2
    /\ DOMAIN step_results =
            {ClickHouseRestoreSteps[k] : k \in 1..Len(ClickHouseRestoreSteps)}
    /\ ctx_history[Len(ctx_history)].method = "set_result"
    /\ ctx_history[Len(ctx_history) - 1].returned = <<2>>

\* ------------------------------------------------------------------------
\* Properties of the backup names (checked under SpecNames)
\* ------------------------------------------------------------------------

\* a <= b on str
str_le(a, b) == ~str_less(b, a)

\* the number of times a name starts with the prefix
RECURSIVE LeadingPrefixes(_)
LeadingPrefixes(name) ==
    IF startswith(name, JSON_BACKUP_PREFIX)
    THEN 1 + LeadingPrefixes(SubSeq(name, Len(JSON_BACKUP_PREFIX) + 1,
                                    Len(name)))
    ELSE 0

\* the characters of the ISO-8601 form with second precision and UTC offset:
\* YYYY-MM-DDTHH:MM:SS+00:00
IsoSecondsLength == Len(isoformat_seconds(CHOOSE dt \in AttemptStarts : TRUE))

\* C32: a manifest is stored under JSON_BACKUP_PREFIX followed by the
\* attempt start in ISO-8601 with second precision; for any two attempts the
\* names are in the order of the attempt starts: an attempt that started
\* earlier never has the greater name, and one that started in an earlier
\* second has the smaller name.
C32_NameOrder ==
    \A i, j \in 1..Len(attempt_starts) :
        LET a == attempt_starts[i]
            b == attempt_starts[j]
        IN /\ startswith(uploaded_names[i], JSON_BACKUP_PREFIX)
           /\ Len(uploaded_names[i])
                = Len(JSON_BACKUP_PREFIX) + IsoSecondsLength
           /\ seconds_of(a) = seconds_of(b)
                <=> uploaded_names[i] = uploaded_names[j]
           /\ datetime_less(a, b)
                => str_le(uploaded_names[i], uploaded_names[j])
           /\ fields_less(seconds_of(a), seconds_of(b))
                <=> str_less(uploaded_names[i], uploaded_names[j])

C32_Witness ==
    /\ Len(attempt_starts) = 2
    /\ attempt_starts[1].month = 10
    /\ attempt_starts[1].hour = 9
    /\ attempt_starts[2].month = 9
    /\ attempt_starts[2].hour = 10
    /\ str_less(uploaded_names[2], uploaded_names[1])
    /\ Cardinality(json_storage) = 2

\* the stored manifests of the attempts that started last
MostRecent ==
    {i \in 1..Len(attempt_starts) :
        \A j \in 1..Len(attempt_starts) :
            ~datetime_less(attempt_starts[i], attempt_starts[j])}

WorkHandled ==
    {k \in 1..Len(agent_log) : agent_log[k].request \in WorkRequests}

\* the node was locked by a lock request answered 200 before request k, and
\* neither unlocked nor expired since
LockedAt(k) == agent_log[k].locked

RequestsTo(node_index) ==
    {k \in 1..Len(node_requests) :
        \E t \in 1..Len(node_requests[k].nodes) :
            node_requests[k].nodes[t] = node_index}

\* C38: RestoreStep sends a node at most one request, to that node alone: a
\* download of its snapshot index when the placement gives it one, a clear
\* when it gives it none and the restore is a full one, nothing when it gives
\* it none and the restore is partial; wait_successful_results is given the
\* start results of exactly the requests sent, in the order sent.
C38_OneRequestPerNode ==
    rspc # "idle" /\ gpc = "returned"
        => /\ \A k \in 1..Len(node_requests) :
                Len(node_requests[k].nodes) = 1
           /\ \A i \in 1..Len(restore_nodes) :
                LET to_node == RequestsTo(i - 1)
                    backup_index == node_to_backup_index[i]
                IN /\ Cardinality(to_node) <= 1
                   /\ i > restore_i => to_node = {}
                   /\ i <= restore_i /\ backup_index # NoBackup
                        => \E k \in to_node :
                            /\ node_requests[k].op = "download"
                            /\ node_requests[k].snapshot_index = backup_index
                   /\ i <= restore_i /\ backup_index = NoBackup
                        => IF partial_given = "list" THEN to_node = {}
                           ELSE \E k \in to_node : node_requests[k].op = "clear"
           /\ rspc = "waiting"
                => /\ restore_i = Len(restore_nodes)
                   /\ Len(waited) = Len(node_requests)
                   /\ \A k \in 1..Len(waited) :
                        <<waited[k]>> = node_requests[k].start_result

C38_Witness ==
    /\ rspc = "waiting"
    /\ partial_given = "list"
    /\ Len(restore_nodes) = 3
    /\ node_to_backup_index = <<NoBackup, 1, NoBackup>>
    /\ Len(node_requests) = 1
    /\ node_requests[1].op = "download"
    /\ node_requests[1].nodes = <<1>>
    /\ waited = <<StartNone>>

====
